---- MODULE Spec2Model ----
(***************************************************************************)
(* Curation app for AI-generated DAX formulas: the chat router             *)
(* (utils/apiUtils), the structured correction call and the correction     *)
(* handlers of CurationApp.                                                *)
(*                                                                         *)
(* JavaScript strings are TLA+ strings (TLC evaluates Len, SubSeq and \o   *)
(* on them).  Every other JavaScript value is a record tagged by t.        *)
(***************************************************************************)
EXTENDS Integers, Sequences, FiniteSets, TLC

VARIABLES
    pc,         \* position of the running sendChatMessageWithFallback / mockChatResponse
    call,       \* its arguments and the module it was imported from
    inflight,   \* tiers with an outstanding request or timer
    attempts,   \* tier functions called so far, in call order
    requests,   \* HTTP requests issued so far, per network tier
    net,        \* what each network tier answered
    timer,      \* delay of the pending setTimeout of the mock
    console,    \* console.warn lines of the wrapper
    settled,    \* how the promise returned to the caller settled
    examples,           \* CurationApp: useState([])
    selectedExampleId,  \* CurationApp: useState(null)
    chatMessages,       \* CurationApp: useState([])
    isLoading,          \* CurationApp: useState(false)
    toast,              \* CurationApp: useState(null)
    isEditing,          \* CurationApp: useState(false)
    editedDax,          \* CurationApp: useState('')
    handlers,           \* CurationApp: handler calls suspended at an await, with
                        \* what their closures captured
    corrections,        \* CurationApp: calls of the correction handlers so far
    served,             \* the example service as CurationApp saw it: the collection
                        \* it handed to loadData and the updates it has confirmed since
    now,                \* Date.now(), in milliseconds after Epoch0
    showAddModal,       \* CurationApp: useState(false), isOpen of AddExampleModal
    formData,           \* AddExampleModal: useState({sourceExpression: '', ...})
    errors,             \* AddExampleModal: useState({})
    dataCalls,          \* calls of dataUtils suspended at an await, with their request
    returned,           \* what the latest call of each function of dataUtils resolved with
    calls,              \* submissions, resets and calls of dataUtils made so far
    file,               \* example service: the collection file of the model type
    backups,            \* example service: the backup files of the model type, oldest first
    saving,             \* example service: the save in progress
    httpReq,            \* backend-example: the request of POST /api/v1/chat being handled
    httpRes             \* backend-example: the responses sent for it, in order

apiVars == <<pc, call, inflight, attempts, requests, net, timer, console, settled>>
appVars == <<examples, selectedExampleId, chatMessages, isLoading, toast, isEditing, editedDax, handlers,
             corrections, served>>
storeVars == <<now, showAddModal, formData, errors, dataCalls, returned, calls, file,
               backups, saving>>
serverVars == <<httpReq, httpRes>>
vars == <<apiVars, appVars, storeVars, serverVars>>

-----------------------------------------------------------------------------
(* Bounds *)

\* longest message history handed to mockChatResponse on its own
MaxHistory == 2

\* most handler calls of CurationApp suspended at an await at the same time
MaxInflight == 2

\* most calls of the writing handlers of CurationApp (corrections, adds) in one run
MaxCorrections == 2

\* most milliseconds the clock advances in one run
MaxClock == 1

\* most submissions of the add-example form in one run
MaxAdds == 2

\* most resets of the collection in one run
MaxResets == 1

\* most calls of loadExamples in one run
MaxLoads == 1

\* most calls of dataUtils waiting for the example service at a time
MaxPending == 1
\* most further loads in a run that writes nothing
MaxReloads == 1

\* most turns of a conversation to which a message is still added
MaxTurns == 4

-----------------------------------------------------------------------------
(* JavaScript values *)

Undef == [t |-> "undefined"]
Null == [t |-> "null"]
Str(s) == [t |-> "string", v |-> s]
Num(n) == [t |-> "number", v |-> n]
Bool(b) == [t |-> "boolean", v |-> b]

\* ToBoolean
Truthy(x) ==
    CASE x.t = "undefined" -> FALSE
      [] x.t = "null" -> FALSE
      [] x.t = "string" -> x.v # ""
      [] x.t = "number" -> x.v # 0
      [] x.t = "boolean" -> x.v
      [] OTHER -> TRUE

\* a || b
OrElse(a, b) == IF Truthy(a) THEN a ELSE b

toLowerCaseChar(c) ==
    CASE c = "A" -> "a" [] c = "B" -> "b" [] c = "C" -> "c" [] c = "D" -> "d"
      [] c = "E" -> "e" [] c = "F" -> "f" [] c = "G" -> "g" [] c = "H" -> "h"
      [] c = "I" -> "i" [] c = "J" -> "j" [] c = "K" -> "k" [] c = "L" -> "l"
      [] c = "M" -> "m" [] c = "N" -> "n" [] c = "O" -> "o" [] c = "P" -> "p"
      [] c = "Q" -> "q" [] c = "R" -> "r" [] c = "S" -> "s" [] c = "T" -> "t"
      [] c = "U" -> "u" [] c = "V" -> "v" [] c = "W" -> "w" [] c = "X" -> "x"
      [] c = "Y" -> "y" [] c = "Z" -> "z" [] OTHER -> c

RECURSIVE toLowerCaseFrom(_, _)
toLowerCaseFrom(s, i) ==
    IF i > Len(s) THEN ""
    ELSE toLowerCaseChar(SubSeq(s, i, i)) \o toLowerCaseFrom(s, i + 1)

toLowerCase(s) == toLowerCaseFrom(s, 1)

\* String.prototype.includes
includes(s, sub) ==
    \E i \in 1..(Len(s) - Len(sub) + 1) : SubSeq(s, i, i + Len(sub) - 1) = sub

-----------------------------------------------------------------------------
(* Configuration *)

\* keys of MODEL_ENDPOINTS
MODEL_ENDPOINTS == {"cognos", "microstrategy", "tableau"}

\* model types a caller may pass; "qlik" has no endpoint configured
ModelTypes == MODEL_ENDPOINTS \cup {"qlik"}

\* the two modules of the repository that export sendChatMessageWithFallback
Modules == {"apiUtils", "part_004"}

Tiers == {"gateway", "direct", "mock"}

-----------------------------------------------------------------------------
(* Property access, JSON.stringify *)

\* reading a property of undefined or null throws a TypeError
ThrowsOnRead(x) == x.t \in {"undefined", "null"}

\* x[key] for a value x that is neither undefined nor null
Get(x, key) == IF x.t = "object" /\ key \in DOMAIN x THEN x[key] ELSE Undef

\* x[0]
First(x) == IF x.t = "array" /\ Len(x.items) > 0 THEN x.items[1] ELSE Undef

\* property order of the objects that are rendered
KeyOrder == <<"reply", "choices", "generated_text", "response", "output",
              "message", "role", "content">>

RECURSIVE stringify(_), stringifyFields(_, _, _), stringifyItems(_, _)
stringify(x) ==
    CASE x.t = "string" -> "\"" \o x.v \o "\""
      [] x.t = "number" -> ToString(x.v)
      [] x.t = "array" -> "[" \o stringifyItems(x.items, 1) \o "]"
      [] x.t = "object" -> "{" \o stringifyFields(x, 1, TRUE) \o "}"
      [] OTHER -> "null"

stringifyFields(x, k, first) ==
    IF k > Len(KeyOrder) THEN ""
    ELSE IF KeyOrder[k] \in DOMAIN x /\ x[KeyOrder[k]].t # "undefined"
         THEN (IF first THEN "" ELSE ",") \o "\"" \o KeyOrder[k] \o "\":"
              \o stringify(x[KeyOrder[k]]) \o stringifyFields(x, k + 1, FALSE)
         ELSE stringifyFields(x, k + 1, first)

stringifyItems(items, k) ==
    IF k > Len(items) THEN ""
    ELSE (IF k = 1 THEN "" ELSE ",") \o stringify(items[k])
         \o stringifyItems(items, k + 1)

-----------------------------------------------------------------------------
(* What an upstream can answer *)

ReplyObject(role, content) == [t |-> "object", role |-> role, content |-> content]
MessageObject(content) == [t |-> "object", content |-> content]
ChoiceObject(message) == [t |-> "object", message |-> message]
Array(items) == [t |-> "array", items |-> items]

ReplyVals ==
    {Undef,
     ReplyObject(Undef, Undef),
     ReplyObject(Str("assistant"), Str("")),
     ReplyObject(Str("assistant"), Str("P")),
     ReplyObject(Undef, Str("P"))}

ChoicesVals ==
    {Undef,
     Array(<<>>),
     Array(<<ChoiceObject(Undef)>>),
     Array(<<ChoiceObject(MessageObject(Str("")))>>),
     Array(<<ChoiceObject(MessageObject(Str("C")))>>)}

\* JSON bodies of a 2xx answer, as axios hands them over in response.data:
\* an object, null, or the raw text of a body that is not JSON
Bodies ==
    [t : {"object"}, reply : ReplyVals, choices : ChoicesVals,
     generated_text : {Undef, Str(""), Str("G"), Num(7)},
     response : {Undef, Str("R")},
     output : {Undef, Str("O")}]
    \cup {Null, Str("<html>upstream</html>")}

\* bodies of a non-2xx answer (error.response.data)
ErrorObject(message, error_message) ==
    [t |-> "object", message |-> message, error_message |-> error_message]

ErrorBodies ==
    {ErrorObject(Str("model overloaded"), Undef),
     ErrorObject(Undef, Str("formula rejected")),
     ErrorObject(Undef, Undef),
     Str(""),
     Null}

\* outcomes of one axios.post: resolved with a 2xx response, or rejected
Answers ==
    [status : {"2xx"}, data : Bodies]
    \cup [status : {"non2xx"}, data : ErrorBodies, statusText : {"Bad Gateway"}]
    \cup [status : {"timeout", "refused"}]

Failed(a) == a.status # "2xx"

\* thrown values
Error(message) ==
    [t |-> "error", name |-> "Error", message |-> message,
     response |-> Undef, request |-> Undef]
TypeError(message) ==
    [t |-> "error", name |-> "TypeError", message |-> message,
     response |-> Undef, request |-> Undef]

\* the error axios rejects with
AxiosError(a) ==
    CASE a.status = "non2xx" ->
           [t |-> "error", name |-> "AxiosError",
            message |-> "Request failed with status code 502",
            response |-> [t |-> "object", data |-> a.data,
                          statusText |-> Str(a.statusText)],
            request |-> [t |-> "object"]]
      [] a.status = "timeout" ->
           [t |-> "error", name |-> "AxiosError",
            message |-> "timeout of 30000ms exceeded",
            response |-> Undef, request |-> [t |-> "object"]]
      [] OTHER ->
           [t |-> "error", name |-> "AxiosError", message |-> "Network Error",
            response |-> Undef, request |-> [t |-> "object"]]

-----------------------------------------------------------------------------
(* utils/apiUtils: the pure parts *)

\* catch block of sendChatMessage: the value it throws for a caught error e
sendChatMessage_catch(e) ==
    IF Truthy(e.response)
    THEN IF ThrowsOnRead(e.response.data)
         THEN TypeError("Cannot read properties of null (reading 'message')")
         ELSE Error("Server error: "
                    \o OrElse(Get(e.response.data, "message"),
                              e.response.statusText).v)
    ELSE IF Truthy(e.request)
         THEN Error("No response from server. Please check if the backend is running.")
         ELSE Error("Request error: " \o e.message)

\* catch block of sendChatMessageDirect
sendChatMessageDirect_catch(modelType, e) ==
    IF Truthy(e.response)
    THEN IF ThrowsOnRead(e.response.data)
         THEN TypeError("Cannot read properties of null (reading 'message')")
         ELSE Error("Model API error: "
                    \o OrElse(Get(e.response.data, "message"),
                              e.response.statusText).v)
    ELSE IF Truthy(e.request)
         THEN Error("No response from " \o modelType
                    \o " model API. Please check if it's running.")
         ELSE Error("Request error: " \o e.message)

Returned(v) == [threw |-> FALSE, value |-> v]
Thrown(e) == [threw |-> TRUE, error |-> e]

\* what every tier is meant to hand back
NormalizedReply(content) ==
    [t |-> "object", reply |-> ReplyObject(Str("assistant"), content)]

\* the adaptation without its branch for the OpenAI-style shape
sendChatMessageDirect_adapt_noChoices(data) ==
    IF ThrowsOnRead(data)
    THEN Thrown(TypeError("Cannot read properties of null (reading 'reply')"))
    ELSE IF Truthy(Get(data, "reply")) /\ Truthy(Get(Get(data, "reply"), "content"))
    THEN Returned(NormalizedReply(Get(Get(data, "reply"), "content")))
    ELSE IF Truthy(Get(data, "generated_text"))
    THEN Returned(NormalizedReply(Get(data, "generated_text")))
    ELSE IF Truthy(Get(data, "response"))
    THEN Returned(NormalizedReply(Get(data, "response")))
    ELSE IF Truthy(Get(data, "output"))
    THEN Returned(NormalizedReply(Get(data, "output")))
    ELSE Returned(NormalizedReply(Str(stringify(data))))

\* sendChatMessageDirect after its request resolved with response.data = data:
\* the format adaptation, inside the try block
sendChatMessageDirect_adapt(data) ==
    IF ThrowsOnRead(data)
    THEN Thrown(TypeError("Cannot read properties of null (reading 'reply')"))
    ELSE IF Truthy(Get(data, "reply")) /\ Truthy(Get(Get(data, "reply"), "content"))
    THEN Returned(NormalizedReply(Get(Get(data, "reply"), "content")))
    ELSE IF Truthy(Get(data, "choices")) /\ Truthy(First(Get(data, "choices")))
    THEN IF ThrowsOnRead(Get(First(Get(data, "choices")), "message"))
         THEN Thrown(TypeError("Cannot read properties of undefined (reading 'content')"))
         ELSE Returned(NormalizedReply(
                  Get(Get(First(Get(data, "choices")), "message"), "content")))
    ELSE IF Truthy(Get(data, "generated_text"))
    THEN Returned(NormalizedReply(Get(data, "generated_text")))
    ELSE IF Truthy(Get(data, "response"))
    THEN Returned(NormalizedReply(Get(data, "response")))
    ELSE IF Truthy(Get(data, "output"))
    THEN Returned(NormalizedReply(Get(data, "output")))
    ELSE Returned(NormalizedReply(Str(stringify(data))))

\* sendChatMessageDirect once its request settled with answer a
sendChatMessageDirect_settled(modelType, a) ==
    IF Failed(a)
    THEN Thrown(sendChatMessageDirect_catch(modelType, AxiosError(a)))
    ELSE IF sendChatMessageDirect_adapt(a.data).threw
         THEN Thrown(sendChatMessageDirect_catch(
                         modelType, sendChatMessageDirect_adapt(a.data).error))
         ELSE sendChatMessageDirect_adapt(a.data)

\* the catch block logs a missing response and forgets to rethrow
sendChatMessage_settled_swallow(a) ==
    IF a.status \in {"timeout", "refused"}
    THEN Returned(Undef)
    ELSE IF Failed(a)
         THEN Thrown(sendChatMessage_catch(AxiosError(a)))
         ELSE Returned(a.data)

\* sendChatMessage once its request settled with answer a
sendChatMessage_settled(a) ==
    IF Failed(a)
    THEN Thrown(sendChatMessage_catch(AxiosError(a)))
    ELSE Returned(a.data)

\* the three canned replies; a TLA+ string cannot hold the backquote of the
\* code fences, which is written ' here
VarSnippet ==
    "Here's the DAX formula using VAR for better readability:\n\n'''dax\nVAR TotalRevenue = SUM([Revenue])\nVAR TotalUnits = SUM([Units])\nRETURN\n    DIVIDE(TotalRevenue, TotalUnits)\n'''\n\nThis approach stores intermediate calculations in variables, making the formula easier to read and maintain."

OptimizeSnippet ==
    "Here's an optimized version of the DAX formula:\n\n'''dax\nCALCULATE(\n    DIVIDE(SUM([Revenue]), SUM([Units])),\n    REMOVEFILTERS()\n)\n'''\n\nThis version uses CALCULATE with REMOVEFILTERS for better performance in certain scenarios."

DefaultSnippet ==
    "I understand you want to refine the DAX formula. Here's an improved version:\n\n'''dax\nSUMX(\n    VALUES(Sales[ProductKey]),\n    DIVIDE([Revenue], [Units])\n)\n'''\n\nThis uses SUMX for row-by-row calculation which can be more accurate for this type of division."

\* messages[messages.length - 1]?.content || ''
lastUserMessage(messages) ==
    IF Len(messages) = 0 \/ ThrowsOnRead(messages[Len(messages)])
    THEN ""
    ELSE OrElse(Get(messages[Len(messages)], "content"), Str("")).v

\* the value the promise of mockChatResponse resolves with
mockChatResponse(modelType, messages) ==
    IF includes(toLowerCase(lastUserMessage(messages)), "var")
    THEN NormalizedReply(Str(VarSnippet))
    ELSE IF includes(toLowerCase(lastUserMessage(messages)), "optimize")
    THEN NormalizedReply(Str(OptimizeSnippet))
    ELSE NormalizedReply(Str(DefaultSnippet))

\* 1000 + Math.random() * 2000, in milliseconds
Delays == {1000, 1729, 2999}

\* 2xx bodies of the /api/dax/correct endpoint; a score is written in hundredths
CorrectionObject(success, formula, explanation, score, error_message) ==
    [t |-> "object", success |-> success, corrected_dax_formula |-> formula,
     explanation |-> explanation, confidence_score |-> score,
     error_message |-> error_message]

CorrectionBodies ==
    {CorrectionObject(Bool(TRUE), Str("DIVIDE([Revenue], [Units], 0)"),
                      Str("guards the division"), score, Undef)
        : score \in {Undef, Num(0), Num(85)}}
    \cup {CorrectionObject(Bool(FALSE), Undef, Undef, Undef, Str("formula rejected"))}

CorrectionAnswers ==
    [status : {"2xx"}, data : CorrectionBodies]
    \cup [status : {"non2xx"}, data : ErrorBodies, statusText : {"Bad Gateway"}]
    \cup [status : {"timeout", "refused"}]

\* catch block of correctDaxFormula
correctDaxFormula_catch(e) ==
    IF Truthy(e.response)
    THEN IF ThrowsOnRead(e.response.data)
         THEN TypeError("Cannot read properties of null (reading 'error_message')")
         ELSE Error("DAX correction error: "
                    \o OrElse(Get(e.response.data, "error_message"),
                              e.response.statusText).v)
    ELSE IF Truthy(e.request)
         THEN Error("No response from DAX correction service. Please check if the backend is running.")
         ELSE Error("Request error: " \o e.message)

\* correctDaxFormula once its request settled with answer a
correctDaxFormula_settled(a) ==
    IF Failed(a)
    THEN Thrown(correctDaxFormula_catch(AxiosError(a)))
    ELSE Returned(a.data)

-----------------------------------------------------------------------------
(* utils/apiUtils: the chat router as a state machine *)

UserMessage(content) == [t |-> "object", role |-> Str("user"), content |-> Str(content)]
AssistantMessage(content) ==
    [t |-> "object", role |-> Str("assistant"), content |-> Str(content)]

\* histories as handleSendMessage builds them: the two initial messages of the
\* selected example, then the new user message
SendHistories ==
    {<<UserMessage("Convert the following expression: Sum(Revenue){~+}"),
       AssistantMessage("SUMX(ALL(Sales), [Revenue])"),
       UserMessage(m)>> : m \in {"Rewrite it with VAR", "please optimize", "thanks"}}

NoCall ==
    [entry |-> "", module |-> "", modelType |-> "", messages |-> <<>>,
     sourceExpression |-> "", targetDaxFormula |-> ""]
NoAnswer == [status |-> "none"]
NoRequests == [gateway |-> 0, direct |-> 0, correction |-> 0]
NoAnswers == [gateway |-> NoAnswer, direct |-> NoAnswer, correction |-> NoAnswer]
Pending == [state |-> "pending"]
Resolved(v) == [state |-> "resolved", value |-> v]
Rejected(e) == [state |-> "rejected", reason |-> e]

ApiIdle ==
    /\ pc = "idle"
    /\ call = NoCall
    /\ inflight = {}
    /\ attempts = <<>>
    /\ requests = NoRequests
    /\ net = NoAnswers
    /\ timer = 0
    /\ console = <<>>
    /\ settled = Pending

\* mockChatResponse is called: the promise is created and the timer is set
EnterMock(att, req, log) ==
    /\ pc' = "mock"
    /\ \E d \in Delays : timer' = d
    /\ inflight' = {"mock"}
    /\ attempts' = Append(att, "mock")
    /\ requests' = req
    /\ console' = log
    /\ settled' = Pending

\* the wrapper lets the error of the direct tier escape instead of catching it
DirectFailed_uncaught(c, att, req, log, e) ==
    /\ pc' = "done"
    /\ inflight' = {}
    /\ attempts' = att
    /\ requests' = req
    /\ console' = log
    /\ timer' = 0
    /\ settled' = Rejected(e)

\* the catch block of the wrapper around sendChatMessageDirect
DirectFailed(c, att, req, log, e) ==
    EnterMock(att, req,
              Append(log, "Direct API failed, using mock response: " \o e.message))

\* sendChatMessageDirect is called: without a configured endpoint it throws
\* before any request, otherwise it posts to the model's endpoint
EnterDirect(c, att, req, log) ==
    IF c.modelType \in MODEL_ENDPOINTS
    THEN /\ pc' = "direct"
         /\ inflight' = {"direct"}
         /\ attempts' = Append(att, "direct")
         /\ requests' = [req EXCEPT !.direct = @ + 1]
         /\ console' = log
         /\ timer' = 0
         /\ settled' = Pending
    ELSE DirectFailed(c, Append(att, "direct"), req, log,
             sendChatMessageDirect_catch(c.modelType,
                 Error("No endpoint configured for model type: " \o c.modelType)))

\* sendChatMessage is called: it posts to the gateway
EnterGateway(c) ==
    /\ pc' = "gateway"
    /\ inflight' = {"gateway"}
    /\ attempts' = <<"gateway">>
    /\ requests' = [NoRequests EXCEPT !.gateway = 1]
    /\ console' = <<>>
    /\ timer' = 0
    /\ settled' = Pending

\* sendChatMessageWithFallback(modelType, messages), up to its first await
sendChatMessageWithFallback ==
    /\ pc = "idle"
    /\ \E module \in Modules, modelType \in ModelTypes, messages \in SendHistories :
         /\ call' = [NoCall EXCEPT !.entry = "sendChatMessageWithFallback",
                                    !.module = module, !.modelType = modelType,
                                    !.messages = messages]
         /\ net' = NoAnswers
         /\ IF module = "apiUtils"
            THEN EnterGateway(call')
            ELSE EnterDirect(call', <<>>, NoRequests, <<>>)
    /\ UNCHANGED <<appVars, storeVars, serverVars>>

\* the gateway request settles with answer a
GatewaySettles(a) ==
    /\ net' = [net EXCEPT !.gateway = a]
    /\ UNCHANGED call
    /\ IF sendChatMessage_settled(a).threw
       THEN EnterDirect(call, attempts, requests,
                Append(console, "Gateway API failed, trying direct model API: "
                                \o sendChatMessage_settled(a).error.message))
       ELSE /\ pc' = "done"
            /\ inflight' = {}
            /\ settled' = Resolved(sendChatMessage_settled(a).value)
            /\ UNCHANGED <<attempts, requests, timer, console>>

\* a failed gateway request is sent once more before the wrapper falls through
sendChatMessage_settle_retry ==
    /\ pc = "gateway"
    /\ \E a \in Answers :
         IF Failed(a) /\ requests.gateway < 2
         THEN /\ net' = [net EXCEPT !.gateway = a]
              /\ requests' = [requests EXCEPT !.gateway = @ + 1]
              /\ UNCHANGED <<pc, call, inflight, attempts, timer, console, settled>>
         ELSE GatewaySettles(a)
    /\ UNCHANGED <<appVars, storeVars, serverVars>>

sendChatMessage_settle ==
    /\ pc = "gateway"
    /\ \E a \in Answers : GatewaySettles(a)
    /\ UNCHANGED <<appVars, storeVars, serverVars>>

\* the direct request settles with answer a
DirectSettles(a) ==
    /\ net' = [net EXCEPT !.direct = a]
    /\ UNCHANGED call
    /\ IF sendChatMessageDirect_settled(call.modelType, a).threw
       THEN DirectFailed(call, attempts, requests, console,
                         sendChatMessageDirect_settled(call.modelType, a).error)
       ELSE /\ pc' = "done"
            /\ inflight' = {}
            /\ settled' = Resolved(sendChatMessageDirect_settled(call.modelType, a).value)
            /\ UNCHANGED <<attempts, requests, timer, console>>

sendChatMessageDirect_settle ==
    /\ pc = "direct"
    /\ \E a \in Answers : DirectSettles(a)
    /\ UNCHANGED <<appVars, storeVars, serverVars>>

\* the timer of mockChatResponse fires and the promise resolves
mockChatResponse_timeout ==
    /\ pc = "mock"
    /\ pc' = "done"
    /\ inflight' = {}
    /\ timer' = 0
    /\ settled' = Resolved(mockChatResponse(call.modelType, call.messages))
    /\ UNCHANGED <<call, attempts, requests, net, console>>
    /\ UNCHANGED <<appVars, storeVars, serverVars>>

\* the caller has taken the settled promise; the next call can be made
Return ==
    /\ pc = "done"
    /\ pc' = "idle"
    /\ call' = NoCall
    /\ inflight' = {}
    /\ attempts' = <<>>
    /\ requests' = NoRequests
    /\ net' = NoAnswers
    /\ timer' = 0
    /\ console' = <<>>
    /\ settled' = Pending
    /\ UNCHANGED <<appVars, storeVars, serverVars>>


\* histories for a call of the exported mockChatResponse on its own
MockContents == {"", "Use VAR here", "please OPTIMIZE", "optimize the var"}
Turns == {UserMessage(m) : m \in MockContents} \cup {AssistantMessage(m) : m \in MockContents}
MockHistories == UNION {[1..n -> Turns] : n \in 0..MaxHistory}

\* mockChatResponse(modelType, messages) called on its own
mockChatResponse_call ==
    /\ pc = "idle"
    /\ \E module \in Modules, modelType \in ModelTypes, messages \in MockHistories :
         call' = [NoCall EXCEPT !.entry = "mockChatResponse", !.module = module,
                                !.modelType = modelType, !.messages = messages]
    /\ net' = NoAnswers
    /\ EnterMock(<<>>, NoRequests, <<>>)
    /\ UNCHANGED <<appVars, storeVars, serverVars>>

\* sample expressions handed to correctDaxFormula
Expressions ==
    {[source |-> "Sum(Revenue){~+}", target |-> "SUMX(ALL(Sales), [Revenue])"],
     [source |-> "[Sales].[Revenue] / [Sales].[Units]",
      target |-> "DIVIDE([Revenue], [Units])"]}

\* correctDaxFormula(modelType, sourceExpression, targetDaxFormula), up to its
\* await: every model type has a URL, the unknown ones the one of the gateway
correctDaxFormula ==
    /\ pc = "idle"
    /\ \E modelType \in ModelTypes, x \in Expressions :
         call' = [NoCall EXCEPT !.entry = "correctDaxFormula", !.module = "part_004",
                                !.modelType = modelType,
                                !.sourceExpression = x.source,
                                !.targetDaxFormula = x.target]
    /\ pc' = "correction"
    /\ inflight' = {"correction"}
    /\ attempts' = <<"correction">>
    /\ requests' = [NoRequests EXCEPT !.correction = 1]
    /\ net' = NoAnswers
    /\ timer' = 0
    /\ console' = <<>>
    /\ settled' = Pending
    /\ UNCHANGED <<appVars, storeVars, serverVars>>

\* the correction request settles with answer a
CorrectionSettles(a) ==
    /\ net' = [net EXCEPT !.correction = a]
    /\ pc' = "done"
    /\ inflight' = {}
    /\ settled' = IF correctDaxFormula_settled(a).threw
                  THEN Rejected(correctDaxFormula_settled(a).error)
                  ELSE Resolved(correctDaxFormula_settled(a).value)
    /\ UNCHANGED <<call, attempts, requests, timer, console>>

correctDaxFormula_settle ==
    /\ pc = "correction"
    /\ \E a \in CorrectionAnswers : CorrectionSettles(a)
    /\ UNCHANGED <<appVars, storeVars, serverVars>>

\* AddExampleModal, dataUtils and the example service before anything is done
NoErrors == [sourceExpression |-> Undef, targetDaxFormula |-> Undef]
EmptyForm == [sourceExpression |-> "", targetDaxFormula |-> ""]

NoSave == [step |-> "none"]
NothingReturned == [fn |-> "none", value |-> Undef]
NoCalls == [add |-> 0, load |-> 0, reset |-> 0]

StoreVarsIdle ==
    /\ now = 0
    /\ showAddModal = FALSE
    /\ formData = EmptyForm
    /\ errors = NoErrors
    /\ dataCalls = <<>>
    /\ returned = NothingReturned
    /\ calls = NoCalls
    /\ backups = <<>>
    /\ saving = NoSave

StoreIdle == StoreVarsIdle /\ file = <<>>

NothingServed == [loaded |-> <<>>, confirmed |-> <<>>]

\* CurationApp as its useState calls construct it
AppIdle ==
    /\ examples = <<>>
    /\ selectedExampleId = Null
    /\ chatMessages = <<>>
    /\ isLoading = FALSE
    /\ toast = Null
    /\ isEditing = FALSE
    /\ editedDax = Str("")
    /\ handlers = <<>>
    /\ corrections = 0
    /\ served = NothingServed

\* backend-example with no request
NoRequest == [at |-> "none", body |-> Undef]
ServerIdle == httpReq = NoRequest /\ httpRes = <<>>

ApiInit == ApiIdle /\ AppIdle /\ StoreIdle /\ ServerIdle

ApiNext ==
    \/ sendChatMessageWithFallback
    \/ sendChatMessage_settle
    \/ sendChatMessageDirect_settle
    \/ mockChatResponse_call
    \/ mockChatResponse_timeout
    \/ correctDaxFormula
    \/ correctDaxFormula_settle
    \/ Return

SpecApi == ApiInit /\ [][ApiNext]_vars

-----------------------------------------------------------------------------
(* components/CurationApp: the example list and the correction handlers *)

\* an example as CurationApp holds it; the flags, which the handlers neither
\* read nor write, are left out
Example(id, corrected, previous, score) ==
    [t |-> "object", id |-> id,
     sourceExpression |->
        IF id = Str("cognos-001") THEN Str("[Sales].[Revenue] / [Sales].[Units]")
        ELSE Str("total([Sales].[Revenue] for [Time].[Year])"),
     targetDaxFormula |->
        IF id = Str("cognos-001") THEN Str("DIVIDE([Revenue], [Units])")
        ELSE Str("CALCULATE(SUM([Revenue]), ALLEXCEPT(Sales, Sales[Year]))"),
     correctedDaxFormula |-> corrected,
     previousDaxFormula |-> previous, confidence_score |-> score]

\* what loadExamples hands to loadData: every correctedDaxFormula is a string,
\* and a score, written in hundredths, is absent, 0 or 0.85
LoadedExamples ==
    {<<Example(Str("cognos-001"), loaded[1], Undef, Undef),
       Example(Str("cognos-002"), Str("A"), Undef, loaded[2])>>
        : loaded \in {<<Str(""), Undef>>, <<Str("A"), Num(0)>>, <<Str("A"), Num(85)>>}}

\* formulas of the chat's code blocks and of the edit box
Formulas == {Str("B"), Str("C")}

\* examples.find(ex => ex.id === id)
find(exs, id) ==
    IF \E i \in DOMAIN exs : exs[i].id = id
    THEN exs[CHOOSE i \in DOMAIN exs : exs[i].id = id /\ \A j \in 1..(i - 1) : exs[j].id # id]
    ELSE Undef

selectedExample == find(examples, selectedExampleId)

\* ExamplesList shows Edit for an example with a correction and no previous version
canEdit(example) ==
    /\ Truthy(example.correctedDaxFormula)
    /\ ~Truthy(example.previousDaxFormula)

\* showToast(message, type)
showToast(message, type) == [t |-> "object", message |-> message, type |-> type]

\* examples.map(ex => ex.id === id ? {...ex, correctedDaxFormula, previousDaxFormula,
\* confidence_score} : ex) over the examples the handler's closure holds
updatedExamples(h) ==
    [i \in DOMAIN h.examples |->
        IF h.examples[i].id = h.exampleId
        THEN [h.examples[i] EXCEPT !.correctedDaxFormula = h.daxFormula,
                                   !.previousDaxFormula = h.oldCorrectedDax,
                                   !.confidence_score = h.score]
        ELSE h.examples[i]]

RemoveAt(s, k) == [i \in 1..(Len(s) - 1) |-> IF i < k THEN s[i] ELSE s[i + 1]]

\* a handler call suspended at an await
Suspended(name, await, exampleId, daxFormula, oldCorrectedDax, score) ==
    [name |-> name, await |-> await, examples |-> examples, exampleId |-> exampleId,
     daxFormula |-> daxFormula, oldCorrectedDax |-> oldCorrectedDax, score |-> score]

\* what a load may resolve with: some examples, or none
LoadResults == LoadedExamples \cup {<<>>}

\* useEffect(() => loadData()): the examples arrive and, when there are any,
\* the first is selected
loadData ==
    /\ examples = <<>>
    /\ \E data \in LoadResults :
         /\ examples' = data
         /\ selectedExampleId' = IF Len(data) > 0 THEN data[1].id ELSE selectedExampleId
         /\ served' = [loaded |-> data, confirmed |-> <<>>]
    /\ UNCHANGED <<isLoading, toast, isEditing, editedDax, handlers, corrections>>
    /\ UNCHANGED chatMessages
    /\ UNCHANGED <<apiVars, storeVars, serverVars>>

\* a turn of a conversation
Turn(role, content) == [t |-> "object", role |-> Str(role), content |-> content]

\* the conversation handleExampleSelect starts for an example
initialMessages(example) ==
    <<Turn("user", Str("Convert the following expression: "
                           \o example.sourceExpression.v)),
      Turn("assistant", example.targetDaxFormula)>>

\* handleExampleSelect(exampleId), from a click on an example of the list
handleExampleSelect ==
    /\ \E i \in DOMAIN examples :
         /\ selectedExampleId' = examples[i].id
         /\ chatMessages' = initialMessages(examples[i])
    /\ UNCHANGED <<examples, isLoading, toast, isEditing, editedDax, handlers, corrections, served>>
    /\ UNCHANGED <<apiVars, storeVars, serverVars>>

\* the timer of showToast clears the toast
showToast_timeout ==
    /\ toast # Null
    /\ toast' = Null
    /\ UNCHANGED <<examples, selectedExampleId, isLoading, isEditing, editedDax, handlers, corrections, served>>
    /\ UNCHANGED chatMessages
    /\ UNCHANGED <<apiVars, storeVars, serverVars>>

\* handleEditDax(example), from the Edit button of an example of the list
handleEditDax ==
    /\ \E i \in DOMAIN examples :
         /\ canEdit(examples[i])
         /\ editedDax' = examples[i].correctedDaxFormula
    /\ isEditing' = TRUE
    /\ UNCHANGED <<examples, selectedExampleId, isLoading, toast, handlers, corrections, served>>
    /\ UNCHANGED chatMessages
    /\ UNCHANGED <<apiVars, storeVars, serverVars>>

\* onChange of the textarea of the edit modal
setEditedDax ==
    /\ isEditing
    /\ \E value \in Formulas : editedDax' = value
    /\ UNCHANGED <<examples, selectedExampleId, isLoading, toast, isEditing, handlers, corrections, served>>
    /\ UNCHANGED chatMessages
    /\ UNCHANGED <<apiVars, storeVars, serverVars>>

\* handleCancelEdit
handleCancelEdit ==
    /\ isEditing
    /\ isEditing' = FALSE
    /\ editedDax' = Str("")
    /\ UNCHANGED <<examples, selectedExampleId, isLoading, toast, handlers, corrections, served>>
    /\ UNCHANGED chatMessages
    /\ UNCHANGED <<apiVars, storeVars, serverVars>>

\* handleUseDaxFormula(daxFormula), up to its await of updateCorrectedDax
handleUseDaxFormula ==
    /\ selectedExample # Undef
    /\ Len(handlers) < MaxInflight
    /\ corrections < MaxCorrections
    /\ corrections' = corrections + 1
    /\ UNCHANGED served
    /\ \E daxFormula \in Formulas :
         handlers' = Append(handlers,
             Suspended("handleUseDaxFormula", "updateCorrectedDax", selectedExampleId,
                       daxFormula,
                       OrElse(selectedExample.correctedDaxFormula, Str("")),
                       OrElse(selectedExample.confidence_score, Null)))
    /\ UNCHANGED <<examples, selectedExampleId, isLoading, toast, isEditing, editedDax>>
    /\ UNCHANGED chatMessages
    /\ UNCHANGED <<apiVars, storeVars, serverVars>>

\* handleSaveEditedDax, from Save Changes of the edit modal, up to its await
handleSaveEditedDax ==
    /\ isEditing
    /\ selectedExample # Undef
    /\ Len(handlers) < MaxInflight
    /\ corrections < MaxCorrections
    /\ corrections' = corrections + 1
    /\ UNCHANGED served
    /\ handlers' = Append(handlers,
           Suspended("handleSaveEditedDax", "updateCorrectedDax", selectedExample.id,
                     editedDax, selectedExample.correctedDaxFormula,
                     selectedExample.confidence_score))
    /\ UNCHANGED <<examples, selectedExampleId, isLoading, toast, isEditing, editedDax>>
    /\ UNCHANGED chatMessages
    /\ UNCHANGED <<apiVars, storeVars, serverVars>>

\* handleCorrectDax(messageContent, messageIndex), up to its await of correctDaxFormula
handleCorrectDax ==
    /\ selectedExample # Undef
    /\ Len(handlers) < MaxInflight
    /\ corrections < MaxCorrections
    /\ corrections' = corrections + 1
    /\ UNCHANGED served
    /\ isLoading' = TRUE
    /\ toast' = showToast("Getting structured DAX correction...", "info")
    /\ handlers' = Append(handlers,
           Suspended("handleCorrectDax", "correctDaxFormula", selectedExampleId, Undef,
                     OrElse(selectedExample.correctedDaxFormula, Str("")), Undef))
    /\ UNCHANGED <<examples, selectedExampleId, isEditing, editedDax>>
    /\ UNCHANGED chatMessages
    /\ UNCHANGED <<apiVars, storeVars, serverVars>>

\* handleCorrectDax resumes with the outcome r of correctDaxFormula
CorrectionArrives(k, r) ==
    IF r.threw
    THEN /\ toast' = showToast("Error getting DAX correction: " \o r.error.message, "error")
         /\ isLoading' = FALSE
         /\ handlers' = RemoveAt(handlers, k)
    ELSE IF Truthy(Get(r.value, "success"))
         THEN /\ handlers' = [handlers EXCEPT
                     ![k].await = "updateCorrectedDax",
                     ![k].daxFormula = Get(r.value, "corrected_dax_formula"),
                     ![k].score = OrElse(Get(r.value, "confidence_score"), Null)]
              /\ UNCHANGED <<toast, isLoading>>
         ELSE /\ toast' = showToast("Error correcting DAX: "
                                    \o Get(r.value, "error_message").v, "error")
              /\ isLoading' = FALSE
              /\ handlers' = RemoveAt(handlers, k)

\* the answers of the correction endpoint that CurationApp tells apart
CorrectionOutcomes ==
    {a \in CorrectionAnswers :
        /\ a.status = "non2xx" => a.data = Str("")
        /\ a.status = "2xx" => Get(a.data, "confidence_score") # Num(0)}

handleCorrectDax_corrected ==
    /\ \E k \in DOMAIN handlers :
         /\ handlers[k].await = "correctDaxFormula"
         /\ \E a \in CorrectionOutcomes : CorrectionArrives(k, correctDaxFormula_settled(a))
    /\ UNCHANGED <<examples, selectedExampleId, isEditing, editedDax, corrections, served>>
    /\ UNCHANGED chatMessages
    /\ UNCHANGED <<apiVars, storeVars, serverVars>>

\* the model type CurationApp is mounted with
modelType == Str("cognos")

\* body of the request of updateCorrectedDax(modelType, exampleId, correctedDaxFormula):
\* the handlers hand it two more arguments, which it does not take
updateCorrectedDax_body(h) ==
    [t |-> "object", modelType |-> modelType, exampleId |-> h.exampleId,
     correctedDaxFormula |-> h.daxFormula]

\* outcomes of a fetch: it throws, or resolves with a response
FetchFailed == [threw |-> TRUE]
Response(ok, data) == [threw |-> FALSE, ok |-> ok, data |-> data]

\* bodies of the example service: a confirmation, an error
Message(text) == [t |-> "object", message |-> Str(text), detail |-> Undef]
Detail(text) == [t |-> "object", message |-> Undef, detail |-> Str(text)]

\* ${message} in a template string
Interpolated(x) == IF x.t = "string" THEN x.v ELSE x.t

\* the example service finds no example of the id it was given
NotFound == Response(FALSE, Detail("Example not found"))

\* what the example service, or the network, answers to an update
UpdateResponses ==
    {Response(TRUE, Message("Correction updated")), NotFound, FetchFailed}

\* updateCorrectedDax once its request settled
updateCorrectedDax_settled(resp) ==
    IF resp.threw THEN [success |-> FALSE, message |-> Str("Failed to fetch")]
    ELSE IF resp.ok THEN [success |-> TRUE, message |-> Get(resp.data, "message")]
         ELSE [success |-> FALSE, message |-> Get(resp.data, "detail")]

\* what updateCorrectedDax resolves with: it catches every failure of its
\* request; the message is written as the toasts render it
UpdateResults ==
    {[success |-> updateCorrectedDax_settled(resp).success,
      message |-> Interpolated(updateCorrectedDax_settled(resp).message)]
        : resp \in UpdateResponses}

SavedToast(h) ==
    CASE h.name = "handleUseDaxFormula" -> "DAX formula updated and saved to file!"
      [] h.name = "handleSaveEditedDax" -> "DAX formula successfully updated!"
      [] h.name = "handleCorrectDax" -> "DAX corrected!"

NotSavedToast(h, message) ==
    CASE h.name = "handleUseDaxFormula" -> "Error saving DAX formula: " \o message
      [] h.name = "handleSaveEditedDax" -> "Error updating DAX formula: " \o message
      [] h.name = "handleCorrectDax" -> "Error saving corrected DAX: " \o message

\* the handler updates its examples before it looks at the result
UpdateArrives_optimistic(k, result) ==
    LET h == handlers[k] IN
    /\ handlers' = RemoveAt(handlers, k)
    /\ isLoading' = IF h.name = "handleCorrectDax" THEN FALSE ELSE isLoading
    /\ examples' = updatedExamples(h)
    /\ IF result.success
       THEN /\ served' = [served EXCEPT !.confirmed = Append(@, updateCorrectedDax_body(h))]
            /\ isEditing' = IF h.name = "handleSaveEditedDax" THEN FALSE ELSE isEditing
            /\ toast' = showToast(SavedToast(h), "success")
       ELSE /\ toast' = showToast(NotSavedToast(h, result.message), "error")
            /\ UNCHANGED <<isEditing, served>>

\* the handler of handlers[k] resumes with the result of updateCorrectedDax
UpdateArrives(k, result) ==
    LET h == handlers[k] IN
    /\ handlers' = RemoveAt(handlers, k)
    /\ isLoading' = IF h.name = "handleCorrectDax" THEN FALSE ELSE isLoading
    /\ IF result.success
       THEN /\ examples' = updatedExamples(h)
            /\ served' = [served EXCEPT !.confirmed = Append(@, updateCorrectedDax_body(h))]
            /\ isEditing' = IF h.name = "handleSaveEditedDax" THEN FALSE ELSE isEditing
            /\ toast' = showToast(SavedToast(h), "success")
       ELSE /\ toast' = showToast(NotSavedToast(h, result.message), "error")
            /\ UNCHANGED <<examples, isEditing, served>>

updateCorrectedDax_settle ==
    /\ \E k \in DOMAIN handlers :
         /\ handlers[k].await = "updateCorrectedDax"
         /\ \E result \in UpdateResults : UpdateArrives(k, result)
    /\ UNCHANGED <<selectedExampleId, editedDax, corrections>>
    /\ UNCHANGED chatMessages
    /\ UNCHANGED <<apiVars, storeVars, serverVars>>

\* addExampleToFile reports success whatever the response
addExampleToFile_settled_always(resp) ==
    [success |-> TRUE,
     message |-> IF resp.threw THEN Str("Failed to fetch") ELSE Get(resp.data, "message")]

\* addExampleToFile once its request settled
addExampleToFile_settled(resp) ==
    IF resp.threw THEN [success |-> FALSE, message |-> Str("Failed to fetch")]
    ELSE IF resp.ok THEN [success |-> TRUE, message |-> Get(resp.data, "message")]
         ELSE [success |-> FALSE, message |-> Get(resp.data, "detail")]

\* what the example service, or the network, answers to an add
AddResponses ==
    {Response(TRUE, Message("Example added successfully")),
     Response(FALSE, Detail("StorageUnavailable")),
     FetchFailed}

AddedToast == showToast("New example added and saved to file!", "success")

\* handleAddExample(newExample), the onAdd of the add-example modal, up to its
\* await of addExampleToFile; it reads no state of the component, and counts
\* among the writes a run issues
handleAddExample ==
    /\ examples # <<>>
    /\ Len(handlers) < MaxInflight
    /\ corrections < MaxCorrections
    /\ corrections' = corrections + 1
    /\ handlers' = Append(handlers,
           [Suspended("handleAddExample", "addExampleToFile",
                      Str(modelType.v \o "-new"), Undef, Undef, Undef)
               EXCEPT !.examples = <<>>] @@ [response |-> Undef])
    /\ UNCHANGED <<examples, selectedExampleId, isLoading, toast, isEditing, editedDax,
                   served>>
    /\ UNCHANGED chatMessages
    /\ UNCHANGED <<apiVars, storeVars, serverVars>>

\* handleAddExample resumes with the result of addExampleToFile, which settled
\* with some response: it awaits loadData, or shows the error
handleAddExample_resumed ==
    /\ \E k \in DOMAIN handlers :
         /\ handlers[k].await = "addExampleToFile"
         /\ \E resp \in AddResponses :
              LET result == addExampleToFile_settled(resp) IN
              IF result.success
              THEN /\ handlers' = [handlers EXCEPT ![k].await = "loadExamples",
                                                   ![k].response = resp]
                   /\ UNCHANGED toast
              ELSE /\ handlers' = RemoveAt(handlers, k)
                   /\ toast' = showToast("Error saving example: "
                                             \o Interpolated(result.message), "error")
    /\ UNCHANGED <<examples, selectedExampleId, isLoading, isEditing, editedDax,
                   corrections, served>>
    /\ UNCHANGED chatMessages
    /\ UNCHANGED <<apiVars, storeVars, serverVars>>

\* the loadData that handleAddExample awaits resumes with the examples, and
\* handleAddExample shows its toast
handleAddExample_reloaded ==
    /\ \E k \in DOMAIN handlers :
         /\ handlers[k].await = "loadExamples"
         /\ handlers' = RemoveAt(handlers, k)
         /\ \E data \in LoadResults :
              /\ examples' = data
              /\ selectedExampleId' = IF Len(data) > 0 THEN data[1].id
                                      ELSE selectedExampleId
              /\ served' = [loaded |-> data, confirmed |-> <<>>]
    /\ toast' = AddedToast
    /\ UNCHANGED <<isLoading, isEditing, editedDax, corrections>>
    /\ UNCHANGED chatMessages
    /\ UNCHANGED <<apiVars, storeVars, serverVars>>

\* what is typed into the input of the chat
ChatInputs == {"Use VAR", "Optimize it"}

\* how sendChatMessageWithFallback settles: with a response, or rejected
ChatOutcomes ==
    {[threw |-> FALSE,
      value |-> [t |-> "object", reply |-> Turn("assistant", Str("SUMX(Sales, [Revenue])"))]],
     [threw |-> TRUE, error |-> Error("Network Error")]}

\* handleSendMessage sends the router the new message alone
handleSendMessage_last ==
    /\ ~isLoading
    /\ selectedExample # Undef
    /\ Len(chatMessages) < MaxTurns
    /\ Len(handlers) < MaxInflight
    /\ \E message \in ChatInputs :
         /\ chatMessages' = Append(chatMessages, Turn("user", Str(message)))
         /\ handlers' = Append(handlers,
                Suspended("handleSendMessage", "sendChatMessageWithFallback",
                          selectedExampleId, Undef, Undef, Undef)
                    @@ [messages |-> <<Turn("user", Str(message))>>])
    /\ isLoading' = TRUE
    /\ UNCHANGED <<examples, selectedExampleId, toast, isEditing, editedDax, corrections,
                   served>>
    /\ UNCHANGED <<apiVars, storeVars, serverVars>>

\* handleSubmit of ChatInterface, which sends while neither isLoading nor
\* disabled (no example selected), and handleSendMessage(message) up to its
\* await of sendChatMessageWithFallback(modelType, newMessages, selectedExample)
handleSendMessage ==
    /\ ~isLoading
    /\ selectedExample # Undef
    /\ Len(chatMessages) < MaxTurns
    /\ Len(handlers) < MaxInflight
    /\ \E message \in ChatInputs :
         LET newMessages == Append(chatMessages, Turn("user", Str(message))) IN
         /\ chatMessages' = newMessages
         /\ handlers' = Append(handlers,
                Suspended("handleSendMessage", "sendChatMessageWithFallback",
                          selectedExampleId, Undef, Undef, Undef)
                    @@ [messages |-> newMessages])
    /\ isLoading' = TRUE
    /\ UNCHANGED <<examples, selectedExampleId, toast, isEditing, editedDax, corrections,
                   served>>
    /\ UNCHANGED <<apiVars, storeVars, serverVars>>

\* handleSendMessage resumes without its finally: a rejected request leaves
\* isLoading as it is
handleSendMessage_settle_nofinally ==
    /\ \E k \in DOMAIN handlers :
         /\ handlers[k].await = "sendChatMessageWithFallback"
         /\ handlers' = RemoveAt(handlers, k)
         /\ \E r \in ChatOutcomes :
              IF r.threw
              THEN /\ toast' = showToast("Error sending message: " \o r.error.message,
                                         "error")
                   /\ UNCHANGED <<chatMessages, isLoading>>
              ELSE /\ chatMessages' = Append(handlers[k].messages, r.value.reply)
                   /\ isLoading' = FALSE
                   /\ UNCHANGED toast
    /\ UNCHANGED <<examples, selectedExampleId, isEditing, editedDax, corrections, served>>
    /\ UNCHANGED <<apiVars, storeVars, serverVars>>

\* handleSendMessage resumes: the reply goes after the newMessages of its
\* closure, or the error into a toast; finally isLoading is false
handleSendMessage_settle ==
    /\ \E k \in DOMAIN handlers :
         /\ handlers[k].await = "sendChatMessageWithFallback"
         /\ handlers' = RemoveAt(handlers, k)
         /\ \E r \in ChatOutcomes :
              IF r.threw
              THEN /\ toast' = showToast("Error sending message: " \o r.error.message,
                                         "error")
                   /\ UNCHANGED chatMessages
              ELSE /\ chatMessages' = Append(handlers[k].messages, r.value.reply)
                   /\ UNCHANGED toast
    /\ isLoading' = FALSE
    /\ UNCHANGED <<examples, selectedExampleId, isEditing, editedDax, corrections, served>>
    /\ UNCHANGED <<apiVars, storeVars, serverVars>>

AppInit == ApiIdle /\ AppIdle /\ StoreIdle /\ ServerIdle

\* the chat of CurationApp: ChatInterface takes no onCorrectDax, so that
\* handleSendMessage is the one handler it can start that sets isLoading
ChatNext ==
    \/ loadData
    \/ handleExampleSelect
    \/ showToast_timeout
    \/ handleSendMessage
    \/ handleSendMessage_settle

SpecChat == AppInit /\ [][ChatNext]_vars

\* a request of sendChatMessageWithFallback settles: each tier answers or
\* times out, and the mock answers after its delay
SpecChatFair == SpecChat /\ WF_vars(handleSendMessage_settle)

AppNext ==
    \/ loadData
    \/ handleExampleSelect
    \/ showToast_timeout
    \/ handleEditDax
    \/ setEditedDax
    \/ handleCancelEdit
    \/ handleUseDaxFormula
    \/ handleSaveEditedDax
    \/ handleCorrectDax
    \/ handleCorrectDax_corrected
    \/ updateCorrectedDax_settle
    \/ handleAddExample
    \/ handleAddExample_resumed
    \/ handleAddExample_reloaded

SpecApp == AppInit /\ [][AppNext]_vars

-----------------------------------------------------------------------------
(* components/AddExampleModal, utils/dataUtils and the example service *)

\* String.prototype.trim
Whitespace == {" ", "\t", "\n"}

RECURSIVE trimStart(_, _), trimEnd(_, _)
trimStart(s, i) ==
    IF i <= Len(s) /\ SubSeq(s, i, i) \in Whitespace THEN trimStart(s, i + 1) ELSE i
trimEnd(s, j) ==
    IF j >= 1 /\ SubSeq(s, j, j) \in Whitespace THEN trimEnd(s, j - 1) ELSE j

trim(s) == SubSeq(s, trimStart(s, 1), trimEnd(s, Len(s)))

\* Date.now() rendered in a template string; now counts from this millisecond
Epoch0 == "170000000000"
Timestamp(n) == Epoch0 \o ToString(n)

\* an example as the requests and responses of the example service carry it;
\* a field an object does not have is undefined
Listed(id, source, target, corrected, userAdded, dummy) ==
    [t |-> "object", id |-> id, sourceExpression |-> source, targetDaxFormula |-> target,
     correctedDaxFormula |-> corrected, isUserAdded |-> userAdded, isDummyData |-> dummy]

\* what is typed into the two fields of the form
SourceInputs == {"  ", " SUM(Revenue)\n"}
TargetInputs == {"SUM([Revenue])"}

\* validateForm accepts a field with a character, whitespace or not
validateForm_untrimmed(data) ==
    [sourceExpression |->
        IF data.sourceExpression = ""
        THEN Str("Source expression is required") ELSE Undef,
     targetDaxFormula |->
        IF data.targetDaxFormula = ""
        THEN Str("Target DAX formula is required") ELSE Undef]

\* newErrors of validateForm
validateForm(data) ==
    [sourceExpression |->
        IF trim(data.sourceExpression) = ""
        THEN Str("Source expression is required") ELSE Undef,
     targetDaxFormula |->
        IF trim(data.targetDaxFormula) = ""
        THEN Str("Target DAX formula is required") ELSE Undef]

\* newExample of handleSubmit
newExample(data, timestamp) ==
    Listed(Str(modelType.v \o "-" \o Timestamp(timestamp)),
           Str(trim(data.sourceExpression)), Str(trim(data.targetDaxFormula)),
           Str(""), Undef, Undef)

\* a call of dataUtils suspended at its fetch
DataCall(fn, module, body) ==
    [fn |-> fn, module |-> module, body |-> body, at |-> "request", response |-> Undef]

DataModules == {"part_005", "part_006"}

\* the clock advances by a millisecond
Date_now_tick ==
    /\ now < MaxClock
    /\ now' = now + 1
    /\ UNCHANGED <<showAddModal, formData, errors, dataCalls, returned, calls, file, backups,
                   saving>>
    /\ UNCHANGED <<apiVars, appVars, serverVars>>

\* + Add New Example: setShowAddModal(true)
setShowAddModal ==
    /\ ~showAddModal
    /\ showAddModal' = TRUE
    /\ UNCHANGED <<now, formData, errors, dataCalls, returned, calls, file, backups, saving>>
    /\ UNCHANGED <<apiVars, appVars, serverVars>>

\* handleInputChange(field, value)
handleInputChange ==
    /\ showAddModal
    /\ \/ \E value \in SourceInputs :
            /\ formData' = [formData EXCEPT !.sourceExpression = value]
            /\ errors' = IF Truthy(errors.sourceExpression)
                         THEN [errors EXCEPT !.sourceExpression = Str("")] ELSE errors
       \/ \E value \in TargetInputs :
            /\ formData' = [formData EXCEPT !.targetDaxFormula = value]
            /\ errors' = IF Truthy(errors.targetDaxFormula)
                         THEN [errors EXCEPT !.targetDaxFormula = Str("")] ELSE errors
    /\ UNCHANGED <<now, showAddModal, dataCalls, returned, calls, file, backups, saving>>
    /\ UNCHANGED <<apiVars, appVars, serverVars>>

\* handleClose, from the close and Cancel buttons
handleClose ==
    /\ showAddModal
    /\ formData' = EmptyForm
    /\ errors' = NoErrors
    /\ showAddModal' = FALSE
    /\ UNCHANGED <<now, dataCalls, returned, calls, file, backups, saving>>
    /\ UNCHANGED <<apiVars, appVars, serverVars>>

\* handleSubmit: an invalid form shows its errors; a valid one hands newExample
\* to onAdd, whose first step is addExampleToFile(modelType, newExample) up to
\* its fetch, and closes the modal
handleSubmit ==
    /\ showAddModal
    /\ IF \E field \in DOMAIN validateForm(formData) : validateForm(formData)[field] # Undef
       THEN /\ errors' = validateForm(formData)
            /\ UNCHANGED <<formData, showAddModal, dataCalls, calls>>
       ELSE /\ calls.add < MaxAdds
            /\ calls.load <= MaxLoads
            /\ Len(dataCalls) < MaxPending
            /\ dataCalls' = Append(dataCalls,
                   DataCall("addExampleToFile", "part_005",
                            [t |-> "object", modelType |-> modelType,
                             example |-> newExample(formData, now)]))
            /\ calls' = [calls EXCEPT !.add = @ + 1]
            /\ formData' = EmptyForm
            /\ errors' = NoErrors
            /\ showAddModal' = FALSE
    /\ UNCHANGED <<now, returned, file, backups, saving>>
    /\ UNCHANGED <<apiVars, appVars, serverVars>>

\* Maximum 10 examples per file (latest kept)
MaxRetained == 10

\* the built-in sample set of getSampleData for modelType
SampleData ==
    <<[id |-> "cognos-001", source |-> "[Sales].[Revenue] / [Sales].[Units]",
       target |-> "DIVIDE([Revenue], [Units])"],
      [id |-> "cognos-002",
       source |-> "if ([Product].[Category] = 'Electronics') then ([Sales].[Revenue]) else (0)",
       target |-> "IF([Category] = \"Electronics\", [Revenue], 0)"],
      [id |-> "cognos-003", source |-> "total([Sales].[Revenue] for [Time].[Year])",
       target |-> "CALCULATE(SUM([Revenue]), ALLEXCEPT(Sales, Sales[Year]))"]>>

\* the sample set gets its ids from the clock
getSampleData_stamped(module) ==
    [i \in DOMAIN SampleData |->
        Listed(Str(SampleData[i].id \o Timestamp(now)), Str(SampleData[i].source),
               Str(SampleData[i].target), Str(""),
               IF module = "part_005" THEN Bool(FALSE) ELSE Undef,
               IF module = "part_005" THEN Bool(TRUE) ELSE Undef)]

\* getSampleData(modelType, isDummyData) of the dataUtils with the per-model services
\* (part_005), getSampleData(modelType) of the dataUtils with one service (part_006)
getSampleData(module) ==
    [i \in DOMAIN SampleData |->
        IF module = "part_005"
        THEN Listed(Str(SampleData[i].id), Str(SampleData[i].source),
                    Str(SampleData[i].target), Str(""), Bool(FALSE), Bool(TRUE))
        ELSE Listed(Str(SampleData[i].id), Str(SampleData[i].source),
                    Str(SampleData[i].target), Str(""), Undef, Undef)]

\* the map builds its examples without the isDummyData of the one it copies
loadExamples_map_unflagged(exs) ==
    [i \in DOMAIN exs |->
        [exs[i] EXCEPT !.correctedDaxFormula = OrElse(@, Str("")),
                       !.isUserAdded = Bool(FALSE),
                       !.isDummyData = Undef]]

\* examples.map(example => ({...example, correctedDaxFormula: ... || '', isUserAdded: false}))
loadExamples_map(exs) ==
    [i \in DOMAIN exs |->
        [exs[i] EXCEPT !.correctedDaxFormula = OrElse(@, Str("")),
                       !.isUserAdded = Bool(FALSE)]]

\* the static /data/{modelType}-examples.json, when it is deployed
SeedFile ==
    <<Listed(Str("cognos-001"), Str(SampleData[1].source), Str(SampleData[1].target),
             Undef, Undef, Undef)>>

JsonResponses ==
    {FetchFailed, Response(FALSE, Undef), Response(TRUE, Array(SeedFile))}

\* a body that is not JSON: response.json() rejects with a SyntaxError
Unparseable == [t |-> "unparseable"]

\* loadExamples once the service answered api and the static file answered json;
\* a body without an array of examples, or one that is not JSON, throws into
\* the catch
loadExamples_settled(module, api, json) ==
    IF api.threw THEN getSampleData(module)
    ELSE IF api.ok
         THEN IF Get(api.data, "examples").t = "array"
              THEN loadExamples_map(Get(api.data, "examples").items)
              ELSE getSampleData(module)
         ELSE IF json.threw THEN getSampleData(module)
              ELSE IF json.ok THEN loadExamples_map(json.data.items)
                   ELSE getSampleData(module)


(* The example service (git submodule microstrategy-dax-api), after the       *)
(* specification of the File Store and of the Example Repository API.         *)

\* the retention cap evicts the newest examples
Retained_oldest(exs) ==
    IF Len(exs) > MaxRetained THEN SubSeq(exs, 1, MaxRetained) ELSE exs

\* the retention cap: the oldest examples beyond MaxRetained are evicted
Retained(exs) ==
    IF Len(exs) > MaxRetained
    THEN SubSeq(exs, Len(exs) - MaxRetained + 1, Len(exs))
    ELSE exs

\* the built-in sample set of the service, flagged as placeholder content
ServiceSampleSet == getSampleData("part_005")

\* the answer to the k-th pending call travels back
Respond(k, resp) ==
    dataCalls' = [dataCalls EXCEPT ![k].at = "response", ![k].response = resp]

\* the answer to the call save works for travels back; the service works on
\* one call at a time, and a reset has no caller
RespondSaved(resp) ==
    dataCalls' = [k \in DOMAIN dataCalls |->
                    IF dataCalls[k].at = "service"
                    THEN [dataCalls[k] EXCEPT !.at = "response", !.response = resp]
                    ELSE dataCalls[k]]

\* addExample: validation, the new example appended as user-added, the
\* retention cap, then save
addExample ==
    /\ saving = NoSave
    /\ \E k \in DOMAIN dataCalls :
         LET c == dataCalls[k]
             example == c.body.example IN
         /\ c.fn = "addExampleToFile" /\ c.at = "request"
         /\ IF \/ trim(example.sourceExpression.v) = ""
               \/ trim(example.targetDaxFormula.v) = ""
            THEN /\ Respond(k, Response(FALSE, Detail("ValidationError")))
                 /\ UNCHANGED saving
            ELSE /\ saving' = [step |-> "backup",
                               next |-> Retained(Append(file,
                                   [example EXCEPT !.correctedDaxFormula = Str(""),
                                                   !.isUserAdded = Bool(TRUE)]))]
                 /\ dataCalls' = [dataCalls EXCEPT ![k].at = "service"]
    /\ UNCHANGED <<now, showAddModal, formData, errors, returned, calls, file, backups>>
    /\ UNCHANGED <<apiVars, appVars, serverVars>>

\* resetExamples: the collection is cleared, through save
resetExamples ==
    /\ saving = NoSave
    /\ file # <<>>
    /\ calls.reset < MaxResets
    /\ calls.load <= MaxLoads
    /\ saving' = [step |-> "backup", next |-> <<>>]
    /\ calls' = [calls EXCEPT !.reset = @ + 1]
    /\ UNCHANGED <<now, showAddModal, formData, errors, dataCalls, returned, file, backups>>
    /\ UNCHANGED <<apiVars, appVars, serverVars>>

\* save overwrites the file without a backup
save_backup_skipped ==
    /\ saving.step = "backup"
    /\ saving' = [saving EXCEPT !.step = "write"]
    /\ UNCHANGED <<backups, dataCalls>>
    /\ UNCHANGED <<now, showAddModal, formData, errors, returned, calls, file>>
    /\ UNCHANGED <<apiVars, appVars, serverVars>>

\* save, first half: backup copies the file, or fails and nothing is written
save_backup ==
    /\ saving.step = "backup"
    /\ \/ /\ backups' = Append(backups, file)
          /\ saving' = [saving EXCEPT !.step = "write"]
          /\ UNCHANGED dataCalls
       \/ /\ saving' = NoSave
          /\ RespondSaved(Response(FALSE, Detail("StorageUnavailable")))
          /\ UNCHANGED backups
    /\ UNCHANGED <<now, showAddModal, formData, errors, returned, calls, file>>
    /\ UNCHANGED <<apiVars, appVars, serverVars>>

\* save, second half: the file is replaced as a whole, or stays as it was
save_write ==
    /\ saving.step = "write"
    /\ saving' = NoSave
    /\ \/ /\ file' = saving.next
          /\ RespondSaved(Response(TRUE, Message("saved")))
       \/ /\ UNCHANGED file
          /\ RespondSaved(Response(FALSE, Detail("StorageUnavailable")))
    /\ UNCHANGED <<now, showAddModal, formData, errors, returned, calls, backups>>
    /\ UNCHANGED <<apiVars, appVars, serverVars>>

\* listExamples: the stored collection, or the sample set when it is empty
listExamples ==
    /\ \E k \in DOMAIN dataCalls :
         /\ dataCalls[k].fn = "loadExamples" /\ dataCalls[k].at = "request"
         /\ Respond(k,
                Response(TRUE, [t |-> "object",
                    examples |-> Array(IF file = <<>> THEN ServiceSampleSet ELSE file)]))
    /\ UNCHANGED <<now, showAddModal, formData, errors, returned, calls, file, backups, saving>>
    /\ UNCHANGED <<apiVars, appVars, serverVars>>

\* a request does not reach the service, or the service cannot read its
\* storage, or what is stored is malformed and a list goes out as it is
fetch_fails ==
    /\ \E k \in DOMAIN dataCalls :
         /\ dataCalls[k].at = "request"
         /\ \E resp \in {FetchFailed, Response(FALSE, Detail("StorageUnavailable"))}
                         \cup IF dataCalls[k].fn = "loadExamples"
                              THEN {Response(TRUE, Unparseable)} ELSE {} :
              Respond(k, resp)
    /\ UNCHANGED <<now, showAddModal, formData, errors, returned, calls, file, backups, saving>>
    /\ UNCHANGED <<apiVars, appVars, serverVars>>

(* utils/dataUtils *)

\* no call of the run asked the service to write
NothingWritten == calls.add = 0 /\ calls.reset = 0

\* loadExamples(modelType), up to its fetch
loadExamples ==
    /\ Len(dataCalls) < MaxPending
    /\ calls.load < MaxLoads + (IF NothingWritten THEN MaxReloads ELSE 0)
    /\ \E module \in DataModules :
         dataCalls' = Append(dataCalls,
             DataCall("loadExamples", module, Undef))
    /\ calls' = [calls EXCEPT !.load = @ + 1]
    /\ UNCHANGED <<now, showAddModal, formData, errors, returned, file, backups, saving>>
    /\ UNCHANGED <<apiVars, appVars, serverVars>>

\* how a fetch ended, the content it carried apart
Outcome(resp) ==
    IF resp.threw THEN "failed"
    ELSE IF ~resp.ok THEN "refused"
    ELSE IF resp.data = Unparseable THEN "unparseable" ELSE "ok"

\* the static file is fetched when the service answered, and not OK
StaticFetched(api) == ~api.threw /\ ~api.ok

\* the source a load takes its collection from, given what its fetches found
\* available: the service, the static file, or the built-in sample set
Availability(api, json) ==
    IF Outcome(api) = "ok" /\ Get(api.data, "examples").t = "array" THEN "service"
    ELSE IF StaticFetched(api) /\ Outcome(json) = "ok" THEN "file" ELSE "sample"

\* loadExamples resumes with the response and, when the service did not
\* answer OK, with the one of the static file; returned keeps, next to the
\* value, the module that loaded and the source it found available
loadExamples_settle ==
    /\ \E k \in DOMAIN dataCalls :
         LET c == dataCalls[k] IN
         /\ c.fn = "loadExamples" /\ c.at = "response"
         /\ \E json \in JsonResponses :
              returned' = [fn |-> "loadExamples",
                           value |-> loadExamples_settled(c.module, c.response, json),
                           module |-> c.module,
                           found |-> Availability(c.response, json)]
         /\ dataCalls' = RemoveAt(dataCalls, k)
    /\ UNCHANGED <<now, showAddModal, formData, errors, calls, file, backups, saving>>
    /\ UNCHANGED <<apiVars, appVars, serverVars>>

\* addExampleToFile resumes with the response
addExampleToFile_settle ==
    /\ \E k \in DOMAIN dataCalls :
         LET c == dataCalls[k] IN
         /\ c.fn = "addExampleToFile" /\ c.at = "response"
         /\ returned' = [fn |-> "addExampleToFile",
                         value |-> addExampleToFile_settled(c.response)]
         /\ dataCalls' = RemoveAt(dataCalls, k)
    /\ UNCHANGED <<now, showAddModal, formData, errors, calls, file, backups, saving>>
    /\ UNCHANGED <<apiVars, appVars, serverVars>>

\* collections the service may hold when the app starts: none, or three seed
\* examples and examples added earlier, one short of the cap
Seeded(n) ==
    [i \in 1..n |->
        IF i <= Len(SampleData)
        THEN Listed(Str(SampleData[i].id), Str(SampleData[i].source),
                    Str(SampleData[i].target), Str(""), Bool(FALSE), Undef)
        ELSE Listed(Str(modelType.v \o "-169999999999" \o ToString(i)),
                    Str("Sum(Revenue){~+}"), Str("SUMX(ALL(Sales), [Revenue])"),
                    Str(""), Bool(TRUE), Undef)]

InitialFiles == {<<>>, Seeded(MaxRetained - 1)}

StoreInit == ApiIdle /\ AppIdle /\ StoreVarsIdle /\ ServerIdle /\ file \in InitialFiles

StoreNext ==
    \/ Date_now_tick
    \/ setShowAddModal
    \/ handleInputChange
    \/ handleClose
    \/ handleSubmit
    \/ addExample
    \/ resetExamples
    \/ save_backup
    \/ save_write
    \/ listExamples
    \/ fetch_fails
    \/ loadExamples
    \/ loadExamples_settle
    \/ addExampleToFile_settle

SpecStore == StoreInit /\ [][StoreNext]_vars

-----------------------------------------------------------------------------
(* backend-example: the Express server of POST /api/v1/chat *)

\* the three replies of generateMockResponse, the fences of their code blocks
\* left out
VarReply ==
    "Here's the DAX formula using VAR for better readability:\n\nVAR TotalRevenue = SUM([Revenue])\nVAR TotalUnits = SUM([Units])\nRETURN\n    DIVIDE(TotalRevenue, TotalUnits)\n\nThis approach stores intermediate calculations in variables, making the formula easier to read and maintain."

OptimizeReply ==
    "Here's an optimized version of the DAX formula:\n\nCALCULATE(\n    DIVIDE(SUM([Revenue]), SUM([Units])),\n    REMOVEFILTERS()\n)\n\nThis version uses CALCULATE with REMOVEFILTERS for better performance."

RefineReply ==
    "I understand you want to refine the DAX formula. Here's an improved version:\n\nSUMX(\n    VALUES(Sales[ProductKey]),\n    DIVIDE([Revenue], [Units])\n)\n\nThis uses SUMX for row-by-row calculation which can be more accurate."

\* messages[messages.length - 1]?.content || ''
lastMessage(messages) ==
    LET last == IF messages.items = <<>> THEN Undef
                ELSE messages.items[Len(messages.items)] IN
    OrElse(Get(last, "content"), Str(""))

\* generateMockResponse(modelType, messages): toLowerCase is a method of
\* strings only
generateMockResponse(model_type, messages) ==
    LET last == lastMessage(messages) IN
    IF last.t # "string" THEN TypeError("lastMessage.toLowerCase is not a function")
    ELSE IF includes(toLowerCase(last.v), "var") THEN Str(VarReply)
    ELSE IF includes(toLowerCase(last.v), "optimize") THEN Str(OptimizeReply)
    ELSE Str(RefineReply)

validModelTypes == <<"cognos", "microstrategy", "tableau">>

\* validModelTypes.join(', ')
RECURSIVE join(_, _, _)
join(items, separator, i) ==
    IF i > Len(items) THEN ""
    ELSE IF i = Len(items) THEN items[i]
    ELSE items[i] \o separator \o join(items, separator, i + 1)

\* res.status(status).json(body)
Sent(status, body) == [status |-> status, body |-> body]

ErrorBody(error, message) == [t |-> "object", error |-> Str(error), message |-> message]

ReplyBody(content) ==
    [t |-> "object", reply |-> [t |-> "object", role |-> Str("assistant"), content |-> content]]

\* request bodies express.json() hands to the handler
ModelTypeInputs ==
    {Undef, Str(""), Str("cognos"), Str("microstrategy"), Str("tableau"), Str("powerbi")}

MessagesInputs ==
    {Undef, Str("Use VAR"), Array(<<>>), Array(<<Null>>)}
    \cup {Array(<<Turn("user", content)>>) :
            content \in {Str("Use VAR"), Str("Optimize it"), Str("Shorter"), Str(""),
                         Num(42), Undef}}
    \cup {Array(<<Turn("user", Str("Use VAR")), Turn("assistant", Str(VarReply)),
                  Turn("user", Str("optimize"))>>)}

\* app.post('/api/v1/chat', ...): a request arrives
post_chat ==
    /\ httpReq.at \in {"none", "done"}
    /\ \E model_type \in ModelTypeInputs, messages \in MessagesInputs :
         httpReq' = [at |-> "handler",
                 body |-> [t |-> "object", model_type |-> model_type, messages |-> messages]]
    /\ httpRes' = <<>>
    /\ UNCHANGED <<apiVars, appVars, storeVars>>

\* the handler up to its await: the two validations
post_chat_validate ==
    /\ httpReq.at = "handler"
    /\ LET model_type == httpReq.body.model_type
           messages == httpReq.body.messages IN
       IF ~Truthy(model_type) \/ ~Truthy(messages) \/ messages.t # "array"
       THEN /\ httpRes' = Append(httpRes, Sent(400, ErrorBody(
                        "Invalid request. model_type and messages array are required.",
                        Undef)))
            /\ httpReq' = [httpReq EXCEPT !.at = "done"]
       ELSE IF ~\E i \in DOMAIN validModelTypes : model_type = Str(validModelTypes[i])
       THEN /\ httpRes' = Append(httpRes, Sent(400, ErrorBody(
                        "Invalid model_type. Must be one of: "
                            \o join(validModelTypes, ", ", 1),
                        Undef)))
            /\ httpReq' = [httpReq EXCEPT !.at = "done"]
       ELSE /\ httpReq' = [httpReq EXCEPT !.at = "setTimeout"]
            /\ UNCHANGED httpRes
    /\ UNCHANGED <<apiVars, appVars, storeVars>>

\* the handler after the delay: the reply, or the catch
post_chat_reply ==
    /\ httpReq.at = "setTimeout"
    /\ LET responseContent == generateMockResponse(httpReq.body.model_type, httpReq.body.messages) IN
       httpRes' = Append(httpRes,
                IF responseContent.t = "error"
                THEN Sent(500, ErrorBody("Internal server error",
                                         Str(responseContent.message)))
                ELSE Sent(200, ReplyBody(responseContent)))
    /\ httpReq' = [httpReq EXCEPT !.at = "done"]
    /\ UNCHANGED <<apiVars, appVars, storeVars>>

ServerInit == ApiIdle /\ AppIdle /\ StoreIdle /\ ServerIdle

ServerNext ==
    \/ post_chat
    \/ post_chat_validate
    \/ post_chat_reply

SpecServer == ServerInit /\ [][ServerNext]_vars

-----------------------------------------------------------------------------
(* Properties of the chat router *)

IsChat == call.entry = "sendChatMessageWithFallback"

\* the request was rejected: non-2xx, timeout or no connection
Rejects(a) == a.status \in {"non2xx", "timeout", "refused"}

IsPrefix(s, t) == Len(s) <= Len(t) /\ SubSeq(t, 1, Len(s)) = s

LastAttempt == IF attempts = <<>> THEN "" ELSE attempts[Len(attempts)]

\* the direct tier was called and threw
DirectTierFailed ==
    /\ \E i \in 1..Len(attempts) : attempts[i] = "direct"
    /\ \/ call.modelType \notin MODEL_ENDPOINTS
       \/ /\ net.direct # NoAnswer
          /\ sendChatMessageDirect_settled(call.modelType, net.direct).threw

IsNormalized(v) ==
    /\ v.t = "object"
    /\ DOMAIN v = {"t", "reply"}
    /\ v.reply.t = "object"
    /\ v.reply.role = Str("assistant")
    /\ v.reply.content.t = "string"

\* the promise resolved with the reply of the mock tier, which is not empty
MockReplied ==
    /\ LastAttempt = "mock"
    /\ settled = Resolved(mockChatResponse(call.modelType, call.messages))
    /\ settled.value.reply.content.v # ""

\* C1: the tiers of one send are tried in the order gateway, direct endpoint,
\* mock; the direct endpoint only after the gateway failed, the mock only after
\* both failed, never two at once, and the first tier that succeeds supplies the
\* reply with no later tier tried.
C1_StrictTierOrder ==
    IsChat =>
      /\ IsPrefix(attempts, <<"gateway", "direct", "mock">>)
      /\ Cardinality(inflight) <= 1
      /\ (Len(attempts) >= 2 => Rejects(net.gateway))
      /\ (Len(attempts) = 3 => DirectTierFailed)
      /\ (pc = "done" /\ net.gateway.status = "2xx" =>
            attempts = <<"gateway">> /\ settled = Resolved(net.gateway.data))
      /\ (pc = "done" /\ net.direct.status = "2xx" /\ ~DirectTierFailed =>
            /\ attempts = <<"gateway", "direct">>
            /\ settled = Resolved(sendChatMessageDirect_adapt(net.direct.data).value))

\* every answer a network tier gave was a failure in the sense of C2 as
\* written, which counts a 2xx answer whose body is not JSON as a failure
MalformedBody(a) == a.status = "2xx" /\ a.data.t = "string"

OnlyFailuresAsClaimed ==
    \A tier \in {"gateway", "direct"} :
        net[tier] = NoAnswer \/ Rejects(net[tier]) \/ MalformedBody(net[tier])

OnlyRejections ==
    \A tier \in {"gateway", "direct"} : net[tier] = NoAnswer \/ Rejects(net[tier])

\* C2 as written: whenever the gateway and the direct endpoint fail, a
\* malformed body included, the send resolves with the reply of the mock tier.
C2_MockAfterAnyFailure ==
    IsChat /\ pc = "done" /\ OnlyFailuresAsClaimed => MockReplied

\* steps a send still has to take before its promise settles
StepsLeft ==
    CASE pc = "idle" -> 4
      [] pc = "gateway" -> 3
      [] pc = "direct" -> 2
      [] pc = "mock" -> 1
      [] OTHER -> 0

\* C2, amended: for every model type and history, when every network tier that
\* is asked rejects (timeout, connection refused, non-2xx), the send never
\* rejects and it resolves with the non-empty reply of the mock tier; it ends,
\* because while it is pending a request or the timer is outstanding and each
\* of its steps brings it closer to the end.
C2_MockAfterRejections ==
    [][IsChat' =>
         /\ settled'.state # "rejected"
         /\ (pc' = "done" /\ OnlyRejections' => MockReplied')
         /\ (pc' # "done" => inflight' # {})
         /\ StepsLeft' < StepsLeft]_vars

C2_Witness ==
    /\ IsChat /\ pc = "done"
    /\ call.modelType = "tableau"
    /\ net.gateway.status = "timeout" /\ net.direct.status = "non2xx"
    /\ MockReplied

\* C3: whatever tier answered and whatever the upstream body was, the value a
\* send resolves with is {reply: {role: "assistant", content: <string>}}.
C3_NormalizedShape ==
    IsChat /\ settled.state = "resolved" => IsNormalized(settled.value)

\* C4: within one send each network tier issues at most one request; a failed
\* tier is not asked again, and the step in which it fails is the step that
\* starts the next tier.
C4_OneRequestPerTier ==
    [][IsChat' =>
         /\ requests'.gateway <= 1 /\ requests'.direct <= 1
         /\ (pc = "gateway" /\ Rejects(net'.gateway) =>
               /\ requests'.gateway = requests.gateway
               /\ IsPrefix(Append(attempts, "direct"), attempts')
               /\ inflight' \in {{"direct"}, {"mock"}})
         /\ (pc = "direct" /\ Rejects(net'.direct) =>
               /\ requests'.direct = requests.direct
               /\ attempts' = Append(attempts, "mock")
               /\ inflight' = {"mock"})]_vars

C4_Witness ==
    /\ IsChat /\ pc = "mock"
    /\ net.gateway.status = "timeout" /\ net.direct.status = "refused"
    /\ requests.gateway = 1 /\ requests.direct = 1

\* the reply of a finished send, from the 2xx bodies and the arguments alone
ReplyWhateverFailed ==
    IF net.direct.status = "2xx" /\ ~sendChatMessageDirect_adapt(net.direct.data).threw
    THEN sendChatMessageDirect_adapt(net.direct.data).value
    ELSE IF net.gateway.status = "2xx"
         THEN net.gateway.data
         ELSE mockChatResponse(call.modelType, call.messages)

\* C5: how a network tier fails (timeout, no connection, non-2xx with or
\* without a message in its body) does not matter: the tiers tried afterwards
\* and the reply are determined by the arguments and the 2xx bodies alone.
C5_FailureKindIrrelevant ==
    IsChat =>
      /\ (Rejects(net.gateway) => Len(attempts) >= 2 /\ attempts[2] = "direct")
      /\ (Rejects(net.direct) =>
            /\ LastAttempt = "mock"
            /\ attempts[Len(attempts) - 1] = "direct")
      /\ (pc = "done" => settled = Resolved(ReplyWhateverFailed))

C5_Witness ==
    /\ IsChat /\ pc = "done"
    /\ net.gateway.status = "non2xx" /\ net.gateway.data = Null
    /\ net.direct.status = "timeout"
    /\ MockReplied

\* non-empty texts an upstream body can carry
Texts == {"P", "C", "G", "R", "O"}

ShapeFields == {"reply", "choices", "generated_text", "response", "output"}

\* body d carries text x in the shape named f
CarriesAt(d, f, x) ==
    CASE f = "reply" -> d.reply.t = "object" /\ d.reply.content = Str(x)
      [] f = "choices" -> d.choices = Array(<<ChoiceObject(MessageObject(Str(x)))>>)
      [] OTHER -> d[f] = Str(x)

\* body d is in exactly one known shape, which carries x
ExactlyOneShape(d, x) ==
    /\ d.t = "object"
    /\ \E f \in ShapeFields :
         /\ CarriesAt(d, f, x)
         /\ \A g \in ShapeFields \ {f} : d[g] = Undef

\* C6: when the gateway fails and the direct endpoint answers 2xx with a body
\* in exactly one known shape carrying the (non-empty) text X, the send
\* resolves with {reply: {role: "assistant", content: X}}.
C6_DirectKnownShape ==
    IsChat /\ pc = "done" /\ Rejects(net.gateway) /\ net.direct.status = "2xx" =>
      \A x \in Texts :
        ExactlyOneShape(net.direct.data, x) => settled = Resolved(NormalizedReply(Str(x)))

C6_Witness ==
    /\ IsChat /\ pc = "done" /\ call.module = "apiUtils"
    /\ Rejects(net.gateway) /\ net.direct.status = "2xx"
    /\ ExactlyOneShape(net.direct.data, "C")
    /\ settled = Resolved(NormalizedReply(Str("C")))

\* one of the known shapes is there, if only in part
SomeShape(d) == d.t = "object" /\ \E f \in ShapeFields : d[f] # Undef

\* C7: every 2xx body of the direct endpoint yields a reply of the direct tier,
\* never an error; the content is the JSON rendering of the body exactly when
\* no known shape is present.
C7_DirectAlwaysReplies ==
    IsChat /\ net.direct.status = "2xx" =>
      /\ LastAttempt = "direct"
      /\ pc = "done"
      /\ settled.state = "resolved"
      /\ IsNormalized(settled.value)
      /\ (~SomeShape(net.direct.data) =>
            settled.value.reply.content = Str(stringify(net.direct.data)))

\* content of the latest turn of role user, '' without one
RECURSIVE LatestUserTurn(_, _)
LatestUserTurn(messages, i) ==
    IF i = 0 THEN ""
    ELSE IF messages[i].role = Str("user") THEN messages[i].content.v
    ELSE LatestUserTurn(messages, i - 1)

SnippetFor(text) ==
    IF includes(toLowerCase(text), "var") THEN VarSnippet
    ELSE IF includes(toLowerCase(text), "optimize") THEN OptimizeSnippet
    ELSE DefaultSnippet

\* C8: the mock reply is decided by the latest user turn alone: the VAR snippet
\* if it contains "var" in any case, else the optimize snippet if it contains
\* "optimize", else the default one; the snippets differ pairwise, and turns of
\* other roles, the model type and the delay do not matter.
C8_MockLatestUserTurn ==
    /\ VarSnippet # OptimizeSnippet
    /\ VarSnippet # DefaultSnippet
    /\ OptimizeSnippet # DefaultSnippet
    /\ (pc = "done" /\ LastAttempt = "mock" =>
          settled = Resolved(NormalizedReply(
              Str(SnippetFor(LatestUserTurn(call.messages, Len(call.messages)))))))

\* C9: correctDaxFormula never rejects on an upstream failure: it resolves
\* with success false and a message.
C9_CorrectionNeverRejects ==
    call.entry = "correctDaxFormula" /\ pc = "done" =>
      /\ settled.state = "resolved"
      /\ (Failed(net.correction) =>
            /\ settled.value.success = Bool(FALSE)
            /\ Truthy(settled.value.error_message))

-----------------------------------------------------------------------------
(* Properties of the correction handlers *)

\* the step resumes handlers[k] with a successful updateCorrectedDax
Saves(k) ==
    /\ k \in DOMAIN handlers
    /\ handlers[k].await = "updateCorrectedDax"
    /\ handlers' = RemoveAt(handlers, k)
    /\ toast' = showToast(SavedToast(handlers[k]), "success")

\* C10: every successful correction update of an example (Use as Corrected DAX,
\* manual edit, structured correction) leaves previousDaxFormula equal to the
\* value correctedDaxFormula had immediately before the update, and
\* correctedDaxFormula equal to the value the update supplied; so A, then B,
\* then C leaves previous = B and corrected = C.
C10_CorrectionShift ==
    [][\A k \in DOMAIN handlers :
         Saves(k) =>
            LET id == handlers[k].exampleId IN
            /\ find(examples', id).previousDaxFormula = find(examples, id).correctedDaxFormula
            /\ find(examples', id).correctedDaxFormula = handlers[k].daxFormula]_vars

\* updateCorrection of the example service applied to a collection: the current
\* correction of the example becomes its previous one
Shifted(exs, body) ==
    [i \in DOMAIN exs |->
        IF exs[i].id = body.exampleId
        THEN [exs[i] EXCEPT !.correctedDaxFormula = body.correctedDaxFormula,
                            !.previousDaxFormula = exs[i].correctedDaxFormula]
        ELSE exs[i]]

\* the updates of ops applied one after the other in the order given by order
RECURSIVE OneAfterTheOther(_, _, _, _)
OneAfterTheOther(exs, ops, order, n) ==
    IF n = 0 THEN exs
    ELSE Shifted(OneAfterTheOther(exs, ops, order, n - 1), ops[order[n]])

\* the formulas of a collection, example by example
FormulasOf(exs) ==
    [i \in DOMAIN exs |->
        <<exs[i].id, exs[i].correctedDaxFormula, exs[i].previousDaxFormula>>]

\* C11: operations issued concurrently never interleave their read-modify-write
\* cycles: once every correction update that was issued has completed, the
\* collection is what the confirmed updates yield when they run one after the
\* other in some order, so no update is lost and the correction shift holds.
C11_OneAfterTheOther ==
    handlers = <<>> /\ served.loaded # <<>> =>
        \E order \in Permutations(DOMAIN served.confirmed) :
            FormulasOf(examples)
              = FormulasOf(OneAfterTheOther(served.loaded, served.confirmed, order,
                                            Len(served.confirmed)))

\* C12: after any sequence of valid add-example operations, two of them within
\* the same millisecond included, no two examples of the stored collection have
\* the same id, and every example the add flow created has an empty
\* correctedDaxFormula.
C12_UniqueIds ==
    /\ \A i, j \in DOMAIN file : i # j => file[i].id # file[j].id
    /\ \A i \in DOMAIN file :
         file[i].isUserAdded = Bool(TRUE) => file[i].correctedDaxFormula = Str("")

\* the step in which the service reports the k-th pending call, an add, as saved
AddSaved(k) ==
    /\ dataCalls[k].fn = "addExampleToFile"
    /\ dataCalls[k].at = "service"
    /\ dataCalls'[k].at = "response"
    /\ dataCalls'[k].response.ok

\* C13: the stored collection never holds more than MaxRetained examples and
\* holds the most recently added ones: an add appends the new example, and an
\* add to a full collection also drops the oldest example.
C13_Retention ==
    [][/\ Len(file') <= MaxRetained
       /\ \A k \in DOMAIN dataCalls :
            AddSaved(k) =>
                /\ file'[Len(file')].id = dataCalls[k].body.example.id
                /\ file'[Len(file')].sourceExpression
                     = dataCalls[k].body.example.sourceExpression
                /\ file' = Append(IF Len(file) = MaxRetained THEN Tail(file) ELSE file,
                                  file'[Len(file')])]_vars

\* an eleventh example was added and the oldest one is gone
C13_Evicted ==
    /\ Len(file) = MaxRetained
    /\ file[1].id = Str(SampleData[2].id)
    /\ file[MaxRetained].isUserAdded = Bool(TRUE)
    /\ file[MaxRetained].sourceExpression = Str("SUM(Revenue)")

\* C14: every write of the collection file is preceded by the backup of the
\* same save: the file changes only in the write step of a save whose backup
\* step has completed, the newest backup then holds the content the write
\* replaces, and a save adds exactly one backup, in its backup step.
C14_BackupBeforeWrite ==
    [][/\ file' # file =>
            /\ saving.step = "write" /\ saving' = NoSave
            /\ file' = saving.next
            /\ backups' = backups
       /\ saving.step = "write" =>
            /\ backups # <<>>
            /\ backups[Len(backups)] = file
       /\ backups' # backups =>
            /\ saving.step = "backup" /\ saving'.step = "write"
            /\ file' = file
       /\ saving.step = "backup" /\ saving'.step = "write" =>
            backups' = Append(backups, file)]_vars

\* two saves succeeded, each behind its own backup
C14_TwoSaves ==
    /\ saving = NoSave
    /\ Len(file) = 2
    /\ backups = <<<<>>, <<file[1]>>>>

\* C15: an add submission whose source or target is empty once trimmed is
\* rejected with a validation error: no request is sent and the collection
\* stays as it is; a submission with both fields non-empty once trimmed is
\* sent, with the trimmed values.
C15_ValidatedTrimmed ==
    [][handleSubmit =>
         IF trim(formData.sourceExpression) = "" \/ trim(formData.targetDaxFormula) = ""
         THEN /\ trim(formData.sourceExpression) = ""
                   <=> errors'.sourceExpression = Str("Source expression is required")
              /\ trim(formData.targetDaxFormula) = ""
                   <=> errors'.targetDaxFormula = Str("Target DAX formula is required")
              /\ showAddModal'
              /\ UNCHANGED <<dataCalls, file, backups, saving>>
         ELSE /\ Len(dataCalls') = Len(dataCalls) + 1
              /\ dataCalls'[Len(dataCalls')].fn = "addExampleToFile"
              /\ dataCalls'[Len(dataCalls')].body.example.sourceExpression
                   = Str("SUM(Revenue)")
              /\ dataCalls'[Len(dataCalls')].body.example.targetDaxFormula
                   = Str("SUM([Revenue])")]_vars

\* one submission was sent and a later one, of blanks only, was rejected
C15_Rejected ==
    /\ calls.add = 1
    /\ showAddModal
    /\ formData.sourceExpression = "  "
    /\ errors.sourceExpression = Str("Source expression is required")
    /\ file # <<>> /\ file[Len(file)].sourceExpression = Str("SUM(Revenue)")

\* the ids of seed and sample examples; every other id comes from the add flow
SeedIds == {Str(SampleData[i].id) : i \in DOMAIN SampleData}

\* C16: an example that loadExamples lists has isUserAdded true exactly when it
\* was created through the add-example flow; seed and sample examples have it
\* false.
C16_UserAddedListed ==
    returned.fn = "loadExamples" =>
        \A i \in DOMAIN returned.value :
            returned.value[i].isUserAdded = Bool(TRUE)
                <=> returned.value[i].id \notin SeedIds

\* the list is the built-in sample set
IsSampleSet(exs) ==
    /\ Len(exs) = Len(SampleData)
    /\ \A i \in DOMAIN exs :
         /\ exs[i].id = Str(SampleData[i].id)
         /\ exs[i].sourceExpression = Str(SampleData[i].source)

\* C17: when loadExamples returns the sample set, every example of it has
\* isDummyData true; no stored example, and no example listed from the stored
\* collection, has isDummyData true.
C17_SampleFlagged ==
    /\ returned.fn = "loadExamples" =>
         \A i \in DOMAIN returned.value :
             returned.value[i].isDummyData = Bool(TRUE) <=> IsSampleSet(returned.value)
    /\ \A i \in DOMAIN file : file[i].isDummyData # Bool(TRUE)

\* the step in which the service answers the k-th pending call, a list
Answered(k) ==
    /\ dataCalls[k].fn = "loadExamples"
    /\ dataCalls[k].at = "request"
    /\ dataCalls'[k].at = "response"
    /\ ~dataCalls'[k].response.threw
    /\ dataCalls'[k].response.ok
    /\ Get(dataCalls'[k].response.data, "examples").t = "array"

\* the reset of a populated collection was saved and nothing was saved since
ResetDone == calls.reset > 0 /\ file = <<>>

Ends(k) == handlers' = RemoveAt(handlers, k)

\* the response is the success report of the example service
ReportsSuccess(resp) == resp # Undef /\ ~resp.threw /\ resp.ok

\* C19: a failed persistence is never presented as success. The toast of a
\* successful add is shown, and the examples are replaced by reloaded ones,
\* only by an add whose request the store answered with success; an add that
\* failed ends with an error toast and the examples as they were; and a
\* correction update changes the examples or shows a success toast only when
\* the store confirmed it.
C19_NoFalseSuccess ==
    [][/\ \A k \in DOMAIN handlers :
            /\ handlers[k].await = "loadExamples" => ReportsSuccess(handlers[k].response)
            /\ handlers[k].await = "addExampleToFile" /\ Ends(k) =>
                 /\ toast'.type = "error"
                 /\ examples' = examples
            /\ handlers[k].await = "updateCorrectedDax" /\ Ends(k)
                 /\ (examples' # examples \/ toast'.type = "success") =>
                     Len(served'.confirmed) = Len(served.confirmed) + 1
       /\ toast' = AddedToast /\ toast # AddedToast =>
            \E k \in DOMAIN handlers : handlers[k].await = "loadExamples" /\ Ends(k)
       /\ examples' # examples /\ examples # <<>> =>
            \E k \in DOMAIN handlers :
                /\ handlers[k].await \in {"loadExamples", "updateCorrectedDax"}
                /\ Ends(k)]_vars

\* one add failed and was reported as an error, another is being reloaded
C19_FailedAndSaved ==
    /\ toast # Null /\ toast.type = "error"
    /\ toast.message = "Error saving example: StorageUnavailable"
    /\ \E k \in DOMAIN handlers :
         handlers[k].await = "loadExamples" /\ ReportsSuccess(handlers[k].response)

\* C20: a confidence score supplied with a correction is carried in the
\* update-correction request: the request that handleCorrectDax has sent for a
\* correction with a score holds that score in one of its fields.
C20_ScoreCarried ==
    \A k \in DOMAIN handlers :
        /\ handlers[k].name = "handleCorrectDax"
        /\ handlers[k].await = "updateCorrectedDax"
        /\ handlers[k].score.t = "number"
        => \E key \in DOMAIN updateCorrectedDax_body(handlers[k]) \ {"t"} :
               updateCorrectedDax_body(handlers[k])[key] = handlers[k].score

\* a score that is not there: the field is missing, or null
Absent(score) == score \in {Undef, Null}

\* C21: a correction update that supplies no new confidence score (Use as
\* Corrected DAX, manual edit) leaves the example's confidence score as it was,
\* whether that was a score from 0 to 1, 0 included, or no score.
C21_ScoreKept ==
    [][\A k \in DOMAIN handlers :
         Saves(k) /\ handlers[k].name \in {"handleUseDaxFormula", "handleSaveEditedDax"} =>
            LET before == find(examples, handlers[k].exampleId).confidence_score
                after == find(examples', handlers[k].exampleId).confidence_score IN
            after = before \/ (Absent(before) /\ Absent(after))]_vars

\* C22: a correction update changes only correctedDaxFormula,
\* previousDaxFormula and the confidence score of the example whose id was
\* given: its id, sourceExpression and targetDaxFormula, every field of every
\* other example, and the number and order of the examples stay as they were.
C22_OnlyTheCorrection ==
    [][\A k \in DOMAIN handlers :
         Saves(k) =>
            /\ Len(examples') = Len(examples)
            /\ \A i \in DOMAIN examples :
                 /\ examples'[i].id = examples[i].id
                 /\ examples'[i].sourceExpression = examples[i].sourceExpression
                 /\ examples'[i].targetDaxFormula = examples[i].targetDaxFormula
                 /\ examples[i].id # handlers[k].exampleId => examples'[i] = examples[i]]_vars

\* C24: a correction update for an id the collection does not hold fails with
\* a not-found error, which the user is shown with its message, and changes
\* nothing: an update the store did not confirm ends with an error toast that
\* carries the store's message and leaves every example as it was.
C24_NotFoundSurfaced ==
    [][\A k \in DOMAIN handlers :
         /\ handlers[k].await = "updateCorrectedDax"
         /\ Ends(k)
         /\ served'.confirmed = served.confirmed
         => /\ examples' = examples
            /\ toast'.type = "error"
            /\ \E text \in {"Example not found", "Failed to fetch"} :
                 toast'.message = NotSavedToast(handlers[k], text)]_vars

\* an update was refused as not found, and the examples are the loaded ones
C24_Refused ==
    /\ toast # Null
    /\ toast.message = "Error saving DAX formula: Example not found"
    /\ handlers = <<>>
    /\ examples = served.loaded /\ served.confirmed = <<>>

\* the step in which loadExamples resumes with a body that cannot be parsed
ResumesUnparsed(k) ==
    /\ dataCalls[k].fn = "loadExamples"
    /\ dataCalls[k].at = "response"
    /\ ~dataCalls[k].response.threw
    /\ dataCalls[k].response.data = Unparseable
    /\ dataCalls' = RemoveAt(dataCalls, k)

\* C23: loading never returns substitute data for malformed content: when the
\* body of the examples of a model type cannot be parsed, loadExamples does not
\* return the sample set or an empty list in its place.
C23_CorruptReported ==
    [][\A k \in DOMAIN dataCalls :
         ResumesUnparsed(k) =>
            /\ returned'.value # <<>>
            /\ ~IsSampleSet(returned'.value)]_vars

\* the k-th pending call is a load that resumes in this step, after an earlier
\* load of the same module that found the same sources available, in a run
\* that wrote nothing
LoadsAgain(k) ==
    /\ dataCalls[k].fn = "loadExamples" /\ dataCalls[k].at = "response"
    /\ dataCalls' = RemoveAt(dataCalls, k)
    /\ returned.fn = "loadExamples"
    /\ NothingWritten
    /\ returned'.module = returned.module
    /\ returned'.found = returned.found

-----------------------------------------------------------------------------
(* Properties of backend-example *)

\* the request the claim has answered with a 400
Invalid(body) ==
    \/ body.model_type \in {Undef, Null, Str("")}
    \/ body.messages = Undef \/ body.messages.t # "array"
    \/ body.model_type \notin {Str("cognos"), Str("microstrategy"), Str("tableau")}

\* C25: the handler of POST /api/v1/chat sends exactly one response per
\* request: a 400 with an error message when model_type is missing, messages is
\* missing or not an array, or model_type is not cognos, microstrategy or
\* tableau, such a request never reaching reply generation; otherwise a 200
\* with the body {reply: {role: "assistant", content}}, content not empty
C25_OneResponse ==
    /\ httpReq.at = "handler" => httpRes = <<>>
    /\ httpReq.at = "setTimeout" => httpRes = <<>> /\ ~Invalid(httpReq.body)
    /\ httpReq.at = "done" =>
         /\ Len(httpRes) = 1
         /\ IF Invalid(httpReq.body)
            THEN httpRes[1].status = 400 /\ Truthy(httpRes[1].body.error)
            ELSE /\ httpRes[1].status = 200
                 /\ \E content \in {Str(VarReply), Str(OptimizeReply), Str(RefineReply)} :
                      httpRes[1].body = ReplyBody(content) /\ content.v # ""

-----------------------------------------------------------------------------
(* Properties of the chat of CurationApp *)

ChatsInFlight == {k \in DOMAIN handlers : handlers[k].await = "sendChatMessageWithFallback"}

\* this step starts a chat request
Sends ==
    /\ Len(handlers') = Len(handlers) + 1
    /\ handlers'[Len(handlers')].await = "sendChatMessageWithFallback"

\* in this step the k-th suspended call is a handleSendMessage that resumes
\* with a reply
Replied(k) ==
    /\ handlers[k].await = "sendChatMessageWithFallback"
    /\ handlers' = RemoveAt(handlers, k)
    /\ Len(chatMessages') > 0
    /\ chatMessages'[Len(chatMessages')].role = Str("assistant")
    /\ chatMessages' # chatMessages

\* C27: the chat shown belongs to the selected example: a reply that arrives
\* after the user selected a different example is not written into, and does
\* not replace, the conversation started for the newly selected example
C27_ReplyForSelected ==
    [][\A k \in DOMAIN handlers :
        handlers[k].await = "sendChatMessageWithFallback"
        /\ handlers' = RemoveAt(handlers, k)
        /\ handlers[k].exampleId # selectedExampleId
        => chatMessages' = chatMessages]_vars

\* C28: at most one chat request is in flight and loading always ends: a
\* message is sent only while isLoading is false and an example is selected,
\* handleSendMessage sets isLoading before the request, and after every
\* outcome of the request isLoading is false again
C28_OneRequestLoadingEnds ==
    /\ [](Cardinality(ChatsInFlight) <= 1)
    /\ [][Sends => ~isLoading /\ selectedExample # Undef /\ isLoading']_vars
    /\ [][\A k \in ChatsInFlight : handlers' = RemoveAt(handlers, k) => ~isLoading']_vars
    /\ (isLoading ~> ~isLoading)

\* a request was rejected: the error is shown and loading has ended
C28_RejectedAndIdle ==
    /\ toast # Null /\ toast.message = "Error sending message: Network Error"
    /\ ~isLoading
    /\ handlers = <<>>
    /\ Len(chatMessages) = 3

\* C29: within one selected example the chat history only grows at its end:
\* handleSendMessage sends the router the whole prior history with the new
\* user message last, and after a reply the history is the prior history, the
\* user message and the reply, no earlier turn removed, reordered or repeated
C29_AppendOnly ==
    [][/\ Sends =>
            LET sent == handlers'[Len(handlers')].messages IN
            /\ sent = chatMessages'
            /\ Len(sent) = Len(chatMessages) + 1
            /\ SubSeq(sent, 1, Len(chatMessages)) = chatMessages
            /\ sent[Len(sent)].role = Str("user")
       /\ \A k \in DOMAIN handlers :
            Replied(k) /\ chatMessages = handlers[k].messages =>
                /\ Len(chatMessages') = Len(chatMessages) + 1
                /\ SubSeq(chatMessages', 1, Len(chatMessages)) = chatMessages]_vars

\* the conversation of the selected example after a message and its reply
C29_Answered ==
    /\ selectedExample # Undef
    /\ handlers = <<>>
    /\ Len(chatMessages) = 4
    /\ SubSeq(chatMessages, 1, 2) = initialMessages(selectedExample)
    /\ chatMessages[3].role = Str("user")
    /\ chatMessages[4].role = Str("assistant")

\* C30: selectedExampleId is null or the id of an example of the examples
\* list, also after the reload of an add, after a load that returned no
\* example, and after the model type changed
C30_SelectedIsListed ==
    selectedExampleId = Null \/ \E i \in DOMAIN examples : examples[i].id = selectedExampleId

=============================================================================
